---- MODULE Spec2Model ----
(***************************************************************************)
(* Model of the template document synthesis engine of routes/word.py:      *)
(* template resolution, structural and raw-markup placeholder              *)
(* substitution, pruning of unresolved segment placeholders, removal of    *)
(* absent-segment zones, marker stripping, the single-document handler     *)
(* (generate_word_doc) and the bulk handler (generate_bulk_documents with  *)
(* its per-row pipeline generate_single_document).                         *)
(*                                                                         *)
(* A text is a sequence of chunks (short strings).  A placeholder such as  *)
(* {{Segment1}} is the chunk sequence  "{" "{" "Segment" "1" "}" "}" ; the *)
(* names market_name, region and country are cut into the chunks at which  *)
(* replace_header_textbox cuts their 3-character prefixes.  Substring      *)
(* search and replacement work on chunk sequences exactly as Python's      *)
(* "in" and str.replace work on character sequences.                       *)
(***************************************************************************)
EXTENDS Integers, Sequences, FiniteSets, TLC

VARIABLES
    \* ---- single-document request (generate_word_doc) ----
    data,        \* the request's JSON record
    assets,      \* template files present on disk
    doc,         \* the Document object being filled (NoDoc before loading)
    pc,          \* position of the handler in its pipeline
    trace,       \* pipeline steps performed so far, in order
    response,    \* the HTTP response of the handler
    \* ---- bulk request (generate_bulk_documents) ----
    upload,      \* the uploaded file: what reading it gives per encoding
    table,       \* the parsed CSV: columns and rows
    rowIdx,      \* number of rows the loop has gone through
    results,     \* results dict: success, failed, errors
    archive,     \* names of the entries written to the ZIP
    bulkRecord,  \* the bulk-job record in db.documents
    docRecords,  \* the per-row document records in db.documents
    bpc,         \* position of the bulk handler
    bresponse,   \* the HTTP response of the bulk handler
    \* ---- direct application of an engine function to a tree ----
    tree,        \* a document tree
    arg,         \* the arguments of the function applied to it
    once,        \* the tree after one application
    twice,       \* the tree after two applications
    stage,       \* "init", "once", "twice"; pruning: "init", "zones", "markers"
    \* ---- the metadata store (db.documents) ----
    faults,      \* the write sites of the handlers at which the store raises
    \* ---- concurrent single-document requests ----
    calls,       \* per request: its record, tree, position, paths, response
    disk         \* the files on disk: template assets and temporary files

vars == <<data, assets, doc, pc, trace, response,
          upload, table, rowIdx, results, archive, bulkRecord, docRecords,
          bpc, bresponse, tree, arg, once, twice, stage, faults,
          calls, disk>>

singleVars == <<data, assets, doc, pc, trace, response>>
bulkVars == <<upload, table, rowIdx, results, archive, bulkRecord,
              docRecords, bpc, bresponse>>
treeVars == <<tree, arg, once, twice, stage>>
storeVars == <<faults>>
callVars == <<calls, disk>>

-----------------------------------------------------------------------------
(* Texts *)

\* s[i..] starts with t
StartsAt(s, t, i) ==
    /\ i >= 1
    /\ i + Len(t) - 1 <= Len(s)
    /\ \A k \in 1..Len(t) : s[i + k - 1] = t[k]

\* Python: t in s
Contains(s, t) == \E i \in 1..(Len(s) + 1) : StartsAt(s, t, i)

\* Python: s.find(t, from) with 1-based positions; 0 when absent
Find(s, t, from) ==
    IF \E i \in from..(Len(s) + 1) : StartsAt(s, t, i)
    THEN CHOOSE i \in from..(Len(s) + 1) :
            /\ StartsAt(s, t, i)
            /\ \A k \in from..(i - 1) : ~StartsAt(s, t, k)
    ELSE 0

\* Python: s.replace(old, new), old non-empty: leftmost, non-overlapping,
\* one pass (the replaced text is not searched again)
RECURSIVE Replace(_, _, _)
Replace(s, old, new) ==
    IF Len(s) < Len(old) \/ old = <<>> THEN s
    ELSE IF StartsAt(s, old, 1)
         THEN new \o Replace(SubSeq(s, Len(old) + 1, Len(s)), old, new)
         ELSE <<Head(s)>> \o Replace(Tail(s), old, new)

\* Python: s.strip()
Blanks == {" ", "\n"}
RECURSIVE LStrip(_)
LStrip(s) == IF s # <<>> /\ Head(s) \in Blanks THEN LStrip(Tail(s)) ELSE s
RECURSIVE RStrip(_)
RStrip(s) ==
    IF s # <<>> /\ s[Len(s)] \in Blanks
    THEN RStrip(SubSeq(s, 1, Len(s) - 1)) ELSE s
Strip(s) == RStrip(LStrip(s))

\* Python: sep.join(list)
RECURSIVE Join(_, _)
Join(sep, list) ==
    IF list = <<>> THEN <<>>
    ELSE IF Len(list) = 1 THEN list[1]
    ELSE list[1] \o sep \o Join(sep, Tail(list))

\* seq without the positions in the set drop
Indexed(seq) == [i \in DOMAIN seq |-> <<i, seq[i]>>]

Unindexed(seq) == [i \in DOMAIN seq |-> seq[i][2]]

DropAt(seq, drop) ==
    Unindexed(SelectSeq(Indexed(seq), LAMBDA e : e[1] \notin drop))

Range(seq) == {seq[i] : i \in DOMAIN seq}

-----------------------------------------------------------------------------
(* The placeholder vocabulary *)

NumSegments == 6       \* segment indices 1..6
NumSubSegments == 10   \* sub-segment indices 1..10
NumCompanies == 10     \* company indices 1..10

Ph(core) == <<"{", "{">> \o core \o <<"}", "}">>

MarketNameCore == <<"mar", "ket", "_", "na", "m", "e">>
RegionCore == <<"reg", "ion">>
CountryCore == <<"cou", "ntr", "y">>
MarketNameKey == Ph(MarketNameCore)
RegionKey == Ph(RegionCore)
CountryKey == Ph(CountryCore)

SegmentKey(i) == Ph(<<"Segment", ToString(i)>>)
SubKey(i, j) == Ph(<<"Segment", ToString(i), "Sub-segment", ToString(j)>>)
SubKeyCapital(i, j) == Ph(<<"Segment", ToString(i), "Sub-Segment", ToString(j)>>)
CompanyKey(i) == Ph(<<"Company", ToString(i)>>)
StartMarker(n) == Ph(<<"Segment", ToString(n), "_", "Start">>)
EndMarker(n) == Ph(<<"Segment", ToString(n), "_", "End">>)

\* the closed vocabulary of the engine
Vocabulary ==
    {MarketNameKey, RegionKey, CountryKey}
    \cup {SegmentKey(i) : i \in 1..NumSegments}
    \cup {SubKey(i, j) : i \in 1..NumSegments, j \in 1..NumSubSegments}
    \cup {CompanyKey(i) : i \in 1..NumCompanies}
    \cup {StartMarker(n) : n \in 1..NumSegments}
    \cup {EndMarker(n) : n \in 1..NumSegments}

Markers ==
    {StartMarker(n) : n \in 1..NumSegments}
    \cup {EndMarker(n) : n \in 1..NumSegments}

-----------------------------------------------------------------------------
(* Document trees                                                          *)
(* body:   top-level blocks; a paragraph is [k |-> "p", t |-> text], a     *)
(*         table is [k |-> "tbl", rows |-> rows of cells of paragraph      *)
(*         texts]                                                          *)
(* hdr:    the paragraphs of the section header                            *)
(* txbx:   the textbox paragraphs of the header part, raw: each a          *)
(*         sequence of runs, each run a sequence of text fragments         *)
(* atext:  the drawing text fragments (a:t) of the header part             *)
(* fields: the runs of the field-code regions: fldChar type, instruction   *)
(*         text and the dirty flag                                         *)

Para(t) == [k |-> "p", t |-> t, rows |-> <<>>]
Tbl(rows) == [k |-> "tbl", t |-> <<>>, rows |-> rows]

NoDoc == [body |-> <<>>, hdr |-> <<>>, txbx |-> <<>>, atext |-> <<>>,
          fields |-> <<>>, loaded |-> FALSE]

\* doc.paragraphs: the texts of the top-level paragraphs, in order
RECURSIVE ParasOf(_)
ParasOf(body) ==
    IF body = <<>> THEN <<>>
    ELSE (IF Head(body).k = "p" THEN <<Head(body).t>> ELSE <<>>)
         \o ParasOf(Tail(body))

ParaTexts(d) == ParasOf(d.body)

\* every paragraph text the structural model reaches in the body and its
\* top-level tables
CellTexts(d) ==
    UNION {UNION {UNION {Range(d.body[b].rows[r][c])
                         : c \in DOMAIN d.body[b].rows[r]}
                  : r \in DOMAIN d.body[b].rows}
           : b \in {x \in DOMAIN d.body : d.body[x].k = "tbl"}}

BodyTexts(d) == Range(ParaTexts(d)) \cup CellTexts(d)

\* the text of a raw textbox paragraph
TxbxText(p) == Join(<<>>, [r \in DOMAIN p.runs |-> Join(<<>>, p.runs[r])])

-----------------------------------------------------------------------------
(* Values: a text, or one of the non-text values a record can hold *)

Absent == <<"<absent>">>   \* the key is missing / Python None
NaN == <<"<nan>">>         \* pandas' float nan of an empty CSV cell
Zero == <<"<0>">>          \* the number 0 of a numeric CSV column

IsStr(v) == v \notin {Absent, NaN, Zero}
\* Python truthiness: None, "" and 0 are falsy; nan is truthy
Truthy(v) == v \notin {Absent, <<>>, Zero}

-----------------------------------------------------------------------------
(* Structural substitution: replace_text *)

ReplaceInPara(t, placeholder, replacement) ==
    IF Contains(t, placeholder) THEN Replace(t, placeholder, replacement) ELSE t

ReplaceInBlock(b, placeholder, replacement) ==
    IF b.k = "p" THEN Para(ReplaceInPara(b.t, placeholder, replacement))
    ELSE Tbl([r \in DOMAIN b.rows |->
               [c \in DOMAIN b.rows[r] |->
                 [p \in DOMAIN b.rows[r][c] |->
                   ReplaceInPara(b.rows[r][c][p], placeholder, replacement)]]])

\* str.replace raises TypeError when the replacement is not a string; the
\* call is made only for a paragraph that contains the placeholder
replace_text_raises(d, placeholder, replacement) ==
    /\ ~IsStr(replacement)
    /\ \E t \in BodyTexts(d) \cup Range(d.hdr) : Contains(t, placeholder)

replace_text(d, placeholder, replacement) ==
    [d EXCEPT
        !.body = [i \in DOMAIN d.body |->
                    ReplaceInBlock(d.body[i], placeholder, replacement)],
        !.hdr = [i \in DOMAIN d.hdr |->
                    ReplaceInPara(d.hdr[i], placeholder, replacement)]]

replace_region(d, region) == replace_text(d, RegionKey, region)
replace_country(d, country) == replace_text(d, CountryKey, country)

\* replace_segments: segment at list position i (0-based) fills {{Segment(i+1)}}
RECURSIVE ReplaceSubs(_, _, _, _)
ReplaceSubs(d, i, subs, j) ==
    IF j > Len(subs) THEN d
    ELSE ReplaceSubs(replace_text(d, SubKey(i, j), subs[j]), i, subs, j + 1)

RECURSIVE ReplaceSegmentsFrom(_, _, _)
ReplaceSegmentsFrom(d, segments, i) ==
    IF i > Len(segments) THEN d
    ELSE ReplaceSegmentsFrom(
            ReplaceSubs(replace_text(d, SegmentKey(i), segments[i].name),
                        i, segments[i].subSegments, 1),
            segments, i + 1)

replace_segments(d, segments) == ReplaceSegmentsFrom(d, segments, 1)

\* replace_companies: the first ten companies
RECURSIVE ReplaceCompaniesFrom(_, _, _)
ReplaceCompaniesFrom(d, companies, i) ==
    IF i > Len(companies) \/ i > NumCompanies THEN d
    ELSE ReplaceCompaniesFrom(replace_text(d, CompanyKey(i), companies[i]),
                              companies, i + 1)

replace_companies(d, companies) == ReplaceCompaniesFrom(d, companies, 1)

-----------------------------------------------------------------------------
(* Pruning of unresolved segment placeholders: clean_empty_segments *)

segment_placeholders ==
    {SegmentKey(i) : i \in 1..NumSegments}
    \cup {SubKeyCapital(i, j) : i \in 1..NumSegments, j \in 1..NumSubSegments}
    \cup {SubKey(i, j) : i \in 1..NumSegments, j \in 1..NumSubSegments}

HasSegmentPlaceholder(t) == \E ph \in segment_placeholders : Contains(t, ph)

\* the text of a cell: its paragraphs joined by newlines
CellText(cell) == Join(<<"\n">>, cell)

\* the non-blank paragraphs of a cell, stripped
RECURSIVE StrippedParas(_)
StrippedParas(cell) ==
    IF cell = <<>> THEN <<>>
    ELSE (IF Strip(Head(cell)) # <<>> THEN <<Strip(Head(cell))>> ELSE <<>>)
         \o StrippedParas(Tail(cell))

RowMarked(row) ==
    LET row_text == Join(<<" ", "|", " ">>,
                         [c \in DOMAIN row |-> Strip(CellText(row[c]))])
    IN  /\ Strip(row_text) # <<>>
        /\ \E c \in DOMAIN row :
              HasSegmentPlaceholder(Join(<<" ">>, StrippedParas(row[c])))

ParaMarked(t) == Strip(t) # <<>> /\ HasSegmentPlaceholder(Strip(t))

clean_empty_segments(d) ==
    LET kept == SelectSeq(d.body,
                          LAMBDA b : ~(b.k = "p" /\ ParaMarked(b.t)))
        CleanTable(b) ==
            Tbl(SelectSeq(b.rows, LAMBDA r : ~RowMarked(r)))
    IN  [d EXCEPT !.body = [i \in DOMAIN kept |->
                              IF kept[i].k = "tbl" THEN CleanTable(kept[i])
                              ELSE kept[i]]]

-----------------------------------------------------------------------------
(* Conditional sections: remove_unused_sections, clean_all_segment_markers *)

\* segment numbers (list positions) whose name is truthy
present_segments(segmentations) ==
    {i \in DOMAIN segmentations : Truthy(segmentations[i].name)}

\* first pass of remove_unused_sections for one segment number: the scan
\* over the top-level elements; start_idx = 0 stands for None
RECURSIVE ScanZones(_, _, _, _, _)
ScanZones(body, n, idx, start_idx, zones) ==
    IF idx > Len(body) THEN zones
    ELSE IF body[idx].k # "p"
         THEN ScanZones(body, n, idx + 1, start_idx, zones)
         ELSE LET text == body[idx].t
                  s1 == IF Contains(text, StartMarker(n)) /\ start_idx = 0
                        THEN idx ELSE start_idx
              IN  IF Contains(text, EndMarker(n)) /\ s1 # 0
                  THEN ScanZones(body, n, idx + 1, 0, zones \cup {<<s1, idx>>})
                  ELSE ScanZones(body, n, idx + 1, s1, zones)

segment_zones(body, n) == ScanZones(body, n, 1, 0, {})

\* a second pass that leaves the element with the End marker in place
RemoveZonesBeforeEnd(body, n) ==
    LET zones == segment_zones(body, n)
    IN  IF zones = {} THEN body
        ELSE DropAt(body, UNION {z[1]..(z[2] - 1) : z \in zones})

\* second pass: every element of every recorded range is removed
RemoveZonesOf(body, n) ==
    LET zones == segment_zones(body, n)
    IN  IF zones = {} THEN body
        ELSE DropAt(body, UNION {z[1]..z[2] : z \in zones})

RECURSIVE RemoveUnusedFrom(_, _, _)
RemoveUnusedFrom(body, present, n) ==
    IF n > NumSegments THEN body
    ELSE RemoveUnusedFrom(
            IF n \in present THEN body ELSE RemoveZonesOf(body, n),
            present, n + 1)

remove_unused_sections(d, segmentations) ==
    [d EXCEPT !.body =
        RemoveUnusedFrom(d.body, present_segments(segmentations), 1)]

\* clean_all_segment_markers for one segment number: a top-level paragraph
\* holding a marker is removed whole; in a table cell the marker text alone
\* is replaced by the empty string
StripMarkersInCell(t, n) ==
    ReplaceInPara(ReplaceInPara(t, StartMarker(n), <<>>), EndMarker(n), <<>>)

CleanMarkersOf(body, n) ==
    LET kept == SelectSeq(body,
                          LAMBDA b : ~(/\ b.k = "p"
                                       /\ \/ Contains(b.t, StartMarker(n))
                                          \/ Contains(b.t, EndMarker(n))))
    IN  [i \in DOMAIN kept |->
            IF kept[i].k = "p" THEN kept[i]
            ELSE Tbl([r \in DOMAIN kept[i].rows |->
                       [c \in DOMAIN kept[i].rows[r] |->
                         [p \in DOMAIN kept[i].rows[r][c] |->
                           StripMarkersInCell(kept[i].rows[r][c][p], n)]]])]

RECURSIVE CleanMarkersFrom(_, _)
CleanMarkersFrom(body, n) ==
    IF n > NumSegments THEN body
    ELSE CleanMarkersFrom(CleanMarkersOf(body, n), n + 1)

clean_all_segment_markers(d) == [d EXCEPT !.body = CleanMarkersFrom(d.body, 1)]

-----------------------------------------------------------------------------
(* Reference refresh: update_document_references *)

FieldKeywords == <<<<"TOC">>, <<"TOF">>, <<"TOT">>, <<"REF">>,
                   <<"PAGE", "REF">>, <<"SEQ">>>>

\* fields lists the runs that take part in field-code regions: fld is the
\* type of the fldChar the run holds ("none": the run holds no fldChar),
\* instr the instruction text (w:instrText) inside that run, dirty the
\* flag of its fldChar.

\* the elements visited are the parents of the fldChar elements; the
\* instruction text is looked for inside the visited element, and the
\* flag is set on the fldChar elements of type begin inside it
update_fields(fields, field_type) ==
    [i \in DOMAIN fields |->
        IF /\ fields[i].fld # "none"
           /\ fields[i].instr # <<>>
           /\ Contains(fields[i].instr, field_type)
           /\ fields[i].fld = "begin"
        THEN [fields[i] EXCEPT !.dirty = TRUE]
        ELSE fields[i]]

RECURSIVE UpdateFieldsFrom(_, _)
UpdateFieldsFrom(fields, k) ==
    IF k > Len(FieldKeywords) THEN fields
    ELSE UpdateFieldsFrom(update_fields(fields, FieldKeywords[k]), k + 1)

update_document_references(d) ==
    [d EXCEPT !.fields = UpdateFieldsFrom(d.fields, 1)]

-----------------------------------------------------------------------------
(* Raw textbox substitution: replace_textbox_text *)

\* how many (element, XPath) pairs of replace_textbox_text reach a textbox
\* of the header part: the header element, the header part's element and
\* the package part each scanned with the three textbox_paths
TextboxTextScans(kind) == IF kind = "wps" THEN 9 ELSE 3

\* one w:t element: t.text = t.text.replace(placeholder, replacement)
RECURSIVE ReplaceFragment(_, _, _, _)
ReplaceFragment(t, placeholder, replacement, k) ==
    IF k = 0 THEN t
    ELSE ReplaceFragment(
            IF t # <<>> /\ Contains(t, placeholder)
            THEN Replace(t, placeholder, replacement) ELSE t,
            placeholder, replacement, k - 1)

replace_textbox_text(d, placeholder, replacement) ==
    [d EXCEPT !.txbx =
        [i \in DOMAIN d.txbx |->
            [d.txbx[i] EXCEPT !.runs =
                [r \in DOMAIN d.txbx[i].runs |->
                    [f \in DOMAIN d.txbx[i].runs[r] |->
                        ReplaceFragment(d.txbx[i].runs[r][f], placeholder,
                                        replacement,
                                        TextboxTextScans(d.txbx[i].kind))]]]]]

-----------------------------------------------------------------------------
(* Raw header substitution: replace_header_textbox(doc, market_name,       *)
(* location)                                                              *)

\* dict assignment: a new key goes to the end, an old key keeps its place
Put(dict, key, value) ==
    IF \E i \in DOMAIN dict : dict[i].k = key
    THEN [i \in DOMAIN dict |->
            IF dict[i].k = key THEN [k |-> key, v |-> value] ELSE dict[i]]
    ELSE Append(dict, [k |-> key, v |-> value])

\* the replacements dictionary
Replacements(market_name, location) ==
    (IF Truthy(market_name)
     THEN <<[k |-> MarketNameKey, v |-> market_name]>> ELSE <<>>)
    \o (IF Truthy(location)
        THEN <<[k |-> RegionKey, v |-> location],
               [k |-> CountryKey, v |-> location]>>
        ELSE <<>>)

\* placeholder.replace('{{', '').replace('}}', '')
StripBraces(placeholder) ==
    Replace(Replace(placeholder, <<"{", "{">>, <<>>), <<"}", "}">>, <<>>)

NoUnderscore(core) == SelectSeq(core, LAMBDA c : c # "_")

LowerChunk(c) ==
    CASE c = "Segment" -> "segment"
      [] c = "Company" -> "company"
      [] c = "Start" -> "start"
      [] c = "End" -> "end"
      [] c = "Global" -> "global"
      [] OTHER -> c
Lower(core) == [i \in DOMAIN core |-> LowerChunk(core[i])]

Spaced(core) == <<"{", " ", "{">> \o core \o <<"}", " ", "}">>

\* the alternate forms added for one placeholder
ExpandOne(dict, placeholder, value) ==
    LET alt_key == StripBraces(placeholder)
        no_underscore == NoUnderscore(alt_key)
        d1 == Put(dict, Ph(alt_key), value)
        d2 == Put(d1, Spaced(alt_key), value)
        d3 == Put(d2, Ph(no_underscore), value)
        d4 == Put(d3, alt_key, value)
        d5 == Put(d4, Ph(no_underscore), value)
    IN  Put(d5, Ph(Lower(no_underscore)), value)

RECURSIVE ExpandFrom(_, _, _)
ExpandFrom(dict, replacements, i) ==
    IF i > Len(replacements) THEN dict
    ELSE ExpandFrom(ExpandOne(dict, replacements[i].k, replacements[i].v),
                    replacements, i + 1)

expanded_replacements(market_name, location) ==
    LET replacements == Replacements(market_name, location)
    IN  ExpandFrom(replacements, replacements, 1)

\* the number of characters of a chunk
ChunkLen(c) ==
    CASE c \in {"{", "}", "_", " ", "m", "e", "y", "|", "\n"} -> 1
      [] c \in {"na"} -> 2
      [] c \in {"mar", "ket", "reg", "ion", "cou", "ntr"} -> 3
      [] OTHER -> 6

RECURSIVE CharLen(_)
CharLen(s) == IF s = <<>> THEN 0 ELSE ChunkLen(Head(s)) + CharLen(Tail(s))

\* core[:n]: the chunks that make up the first n characters
RECURSIVE CharPrefix(_, _)
CharPrefix(core, n) ==
    IF core = <<>> \/ ChunkLen(Head(core)) > n THEN <<>>
    ELSE <<Head(core)>> \o CharPrefix(Tail(core), n - ChunkLen(Head(core)))

\* placeholder.strip('{}')
RECURSIVE LStripBraces(_)
LStripBraces(s) ==
    IF s # <<>> /\ Head(s) \in {"{", "}"} THEN LStripBraces(Tail(s)) ELSE s
RECURSIVE RStripBraces(_)
RStripBraces(s) ==
    IF s # <<>> /\ s[Len(s)] \in {"{", "}"}
    THEN RStripBraces(SubSeq(s, 1, Len(s) - 1)) ELSE s
placeholder_core(placeholder) == RStripBraces(LStripBraces(placeholder))

Opener == <<"{", "{">>
Closer == <<"}", "}">>

contains_any_placeholder(text, dict) ==
    \/ \E i \in DOMAIN dict : Contains(text, dict[i].k)
    \/ \E i \in DOMAIN dict :
          /\ StartsAt(dict[i].k, Opener, 1)
          /\ Contains(text, Opener)
          /\ CharLen(placeholder_core(dict[i].k)) > 3
          /\ Contains(text, CharPrefix(placeholder_core(dict[i].k), 3))

\* the direct pass: every key of the dictionary, in its order
RECURSIVE DirectFrom(_, _, _)
DirectFrom(text, dict, i) ==
    IF i > Len(dict) THEN text
    ELSE DirectFrom(IF Contains(text, dict[i].k)
                    THEN Replace(text, dict[i].k, dict[i].v) ELSE text,
                    dict, i + 1)

\* the split pass for one placeholder: fragments core[:3], core[:6], ...;
\* the result is <<>> when no fragment led to a replacement
RECURSIVE TryFragments(_, _, _, _)
TryFragments(text, core, replacement, n) ==
    IF n >= CharLen(core) THEN <<>>
    ELSE LET fragment == CharPrefix(core, n)
             start == Find(text, fragment, 1)
             likely == \/ /\ start >= 3
                          /\ text[start - 2] = "{"
                          /\ text[start - 1] = "{"
                       \/ CharLen(SubSeq(text, 1, start - 1)) < 2
             openers == {b \in 1..(start - 2) : StartsAt(text, Opener, b)}
             before == IF openers = {} THEN 1
                       ELSE CHOOSE b \in openers : \A c \in openers : c <= b
             after == Find(text, Closer, start)
         IN  IF start > 0 /\ likely /\ after > 0
             THEN <<SubSeq(text, 1, before - 1) \o replacement
                    \o SubSeq(text, after + 2, Len(text))>>
             ELSE TryFragments(text, core, replacement, n + 3)

RECURSIVE SplitFrom(_, _, _, _)
SplitFrom(text, processed, dict, i) ==
    IF i > Len(dict) THEN processed
    ELSE LET tried ==
                IF StartsAt(dict[i].k, Opener, 1) /\ Contains(text, Opener)
                THEN TryFragments(text, placeholder_core(dict[i].k),
                                  dict[i].v, 3)
                ELSE <<>>
         IN  SplitFrom(text, IF tried = <<>> THEN processed ELSE tried[1],
                       dict, i + 1)

\* the new text of a textbox paragraph
ProcessedText(text, dict) ==
    LET direct == DirectFrom(text, dict, 1)
    IN  IF direct = text THEN SplitFrom(text, text, dict, 1) ELSE direct

\* the whole text goes to the first w:t of the first run; the w:t elements
\* of the other runs are emptied
WriteBack(p, processed_text) ==
    IF p.runs = <<>> \/ p.runs[1] = <<>> THEN p
    ELSE [p EXCEPT !.runs =
            [r \in DOMAIN p.runs |->
                [f \in DOMAIN p.runs[r] |->
                    IF r = 1
                    THEN (IF f = 1 THEN processed_text ELSE p.runs[r][f])
                    ELSE <<>>]]]

HeaderParagraphOnce(p, dict) ==
    LET paragraph_text == TxbxText(p)
    IN  IF ~contains_any_placeholder(paragraph_text, dict) THEN p
        ELSE LET processed_text == ProcessedText(paragraph_text, dict)
             IN  IF processed_text = paragraph_text THEN p
                 ELSE WriteBack(p, processed_text)

\* how many of the four textbox XPaths match a textbox paragraph
HeaderScans(kind) == IF kind = "wps" THEN 3 ELSE 2

RECURSIVE HeaderParagraph(_, _, _)
HeaderParagraph(p, dict, k) ==
    IF k = 0 THEN p
    ELSE HeaderParagraph(HeaderParagraphOnce(p, dict), dict, k - 1)

\* a drawing text element is matched by './/a:p//a:r//a:t' and by one of the
\* inline and anchor paths
DrawingScans == 2

RECURSIVE DrawingText(_, _, _)
DrawingText(t, dict, k) ==
    IF k = 0 \/ t = <<>> THEN t
    ELSE DrawingText(DirectFrom(t, dict, 1), dict, k - 1)

replace_header_textbox(d, market_name, location) ==
    LET dict == expanded_replacements(market_name, location)
    IN  IF Replacements(market_name, location) = <<>> THEN d
        ELSE [d EXCEPT
                !.txbx = [i \in DOMAIN d.txbx |->
                            HeaderParagraph(d.txbx[i], dict,
                                            HeaderScans(d.txbx[i].kind))],
                !.atext = [i \in DOMAIN d.atext |->
                            DrawingText(d.atext[i], dict, DrawingScans)]]

-----------------------------------------------------------------------------
(* Template Resolver: get_template_path, validate_region *)

NorthAmerica == <<"North America">>
Europe == <<"Europe">>
AsiaPacific == <<"Asia Pacific">>
MiddleEastAfrica == <<"Middle East ", "&", " Africa">>
LatinAmerica == <<"Latin America">>

region_template_mapping ==
    <<[region |-> NorthAmerica, file |-> "north_america_region_template.docx"],
      [region |-> Europe, file |-> "europe_region_template.docx"],
      [region |-> AsiaPacific, file |-> "asia_pacific_region_template.docx"],
      [region |-> MiddleEastAfrica,
       file |-> "middle_east_africa_region_template.docx"],
      [region |-> LatinAmerica, file |-> "latin_america_region_template.docx"]>>

valid_regions == {region_template_mapping[i].region
                    : i \in DOMAIN region_template_mapping}

RegionFile(region) ==
    (CHOOSE m \in Range(region_template_mapping) : m.region = region).file

AllAssets ==
    {region_template_mapping[i].file : i \in DOMAIN region_template_mapping}
    \cup {"global_template.docx", "country_template.docx"}

Ok(v) == [ok |-> TRUE, err |-> "", v |-> v]
Raise(e) == [ok |-> FALSE, err |-> e, v |-> ""]

\* a resolver that falls back to the global template when no region is given
template_filename_with_fallback(template_type, region) ==
    IF template_type = "Regional"
    THEN IF ~Truthy(region) THEN Ok("global_template.docx")
         ELSE IF region \notin valid_regions THEN Raise("ValueError")
         ELSE Ok(RegionFile(region))
    ELSE IF template_type = "Global" THEN Ok("global_template.docx")
    ELSE IF template_type = "Country" THEN Ok("country_template.docx")
    ELSE Raise("ValueError")

\* the template file name, before the existence test
template_filename(template_type, region) ==
    IF template_type = "Regional"
    THEN IF ~Truthy(region) THEN Raise("ValueError")
         ELSE IF region \notin valid_regions THEN Raise("ValueError")
         ELSE Ok(RegionFile(region))
    ELSE IF template_type = "Global" THEN Ok("global_template.docx")
    ELSE IF template_type = "Country" THEN Ok("country_template.docx")
    ELSE Raise("ValueError")

\* a resolver without the existence test
get_template_path_unchecked(template_type, region, onDisk) ==
    template_filename(template_type, region)

get_template_path(template_type, region, onDisk) ==
    LET name == template_filename(template_type, region)
    IN  IF ~name.ok THEN name
        ELSE IF name.v \notin onDisk THEN Raise("FileNotFoundError")
        ELSE name

\* str(e) of the exception get_template_path ends with, "" when it returns
template_message(template_type, region, onDisk) ==
    IF template_type = "Regional"
    THEN IF ~Truthy(region) THEN "Region is required for Regional template"
         ELSE IF region \notin valid_regions THEN "Invalid region"
         ELSE IF RegionFile(region) \notin onDisk
         THEN "Template file not found" ELSE ""
    ELSE IF template_type \notin {"Global", "Country"}
    THEN "Invalid template type"
    ELSE IF get_template_path(template_type, region, onDisk).ok THEN ""
    ELSE "Template file not found"

validate_region_raises(region) == region \notin valid_regions

-----------------------------------------------------------------------------
(* The template assets.  Every asset follows the marker grammar: a title,  *)
(* the company list, one zone per segment number and a summary table; the  *)
(* header carries the market name and the scope in a paragraph, in         *)
(* textboxes and in drawing text.                                          *)

\* sub-segment placeholders a template zone anticipates
TemplateSubs == 2

RECURSIVE SubParas(_, _)
SubParas(n, j) ==
    IF j > TemplateSubs THEN <<>>
    ELSE <<Para(<<"-", " ">> \o SubKey(n, j))>> \o SubParas(n, j + 1)

Zone(n) ==
    <<Para(StartMarker(n)),
      Para(<<"Overview", ToString(n)>>),
      Para(<<"By", " ">> \o SegmentKey(n))>>
    \o SubParas(n, 1)
    \o <<Para(EndMarker(n))>>

RECURSIVE ZonesFrom(_)
ZonesFrom(n) == IF n > NumSegments THEN <<>> ELSE Zone(n) \o ZonesFrom(n + 1)

SummaryTable ==
    Tbl(<<<< <<<<"Segment">>>>, <<<<"Share">>>> >>>>
        \o [n \in 1..NumSegments |->
              << <<SegmentKey(n)>>, <<SubKey(n, 1), <<"note">>>> >>])

ScopeKeyOf(file) ==
    IF file = "global_template.docx" THEN <<"Global">>
    ELSE IF file = "country_template.docx" THEN CountryKey
    ELSE RegionKey

Template(file) ==
    [body |-> <<Para(ScopeKeyOf(file) \o <<" ">> \o MarketNameKey
                     \o <<" ", "Market">>),
                Para(<<"Players", " ">> \o CompanyKey(1) \o <<" ">>
                     \o CompanyKey(2))>>
               \o ZonesFrom(1)
               \o <<SummaryTable>>,
     hdr |-> <<MarketNameKey>>,
     txbx |-> <<[kind |-> "wps",
                 runs |-> <<<<Opener \o <<"mar", "ket">>>>,
                            <<<<"_", "na", "m", "e">> \o Closer>>>>],
                [kind |-> "vml", runs |-> <<<<ScopeKeyOf(file)>>>>]>>,
     atext |-> <<MarketNameKey>>,
     fields |-> <<[fld |-> "begin", instr |-> <<"TOC", " ", "\\o">>,
                   dirty |-> FALSE],
                  [fld |-> "end", instr |-> <<>>, dirty |-> FALSE]>>,
     loaded |-> TRUE]

-----------------------------------------------------------------------------
(* Input records.  Segment[i] and Company[i] are the values of the keys    *)
(* SegmentI and CompanyI, Sub[i][j] the value of SegmentISub-segmentJ;     *)
(* Absent when the key is not in the record.                               *)

\* data.get(key, default)
Get(v, default) == IF v = Absent THEN default ELSE v

\* A request body is a JSON object with any keys: a record carries the
\* segment and sub-segment keys of the placeholder vocabulary and one key
\* beyond each range.
SegmentKeysIn == 1..(NumSegments + 1)
SubKeysIn == 1..(NumSubSegments + 1)

\* generate_word_doc: sequentially numbered keys are read until a gap
RECURSIVE SubsUntilGap(_, _, _)
SubsUntilGap(d, i, j) ==
    IF j \notin DOMAIN d.Sub[i] \/ d.Sub[i][j] = Absent THEN <<>>
    ELSE <<d.Sub[i][j]>> \o SubsUntilGap(d, i, j + 1)

RECURSIVE SegmentsUntilGap(_, _)
SegmentsUntilGap(d, i) ==
    IF i \notin DOMAIN d.Segment \/ d.Segment[i] = Absent THEN <<>>
    ELSE <<[name |-> d.Segment[i], subSegments |-> SubsUntilGap(d, i, 1)]>>
         \o SegmentsUntilGap(d, i + 1)

materialize(d) == SegmentsUntilGap(d, 1)

\* generate_single_document: every key among 1..6 and 1..10 that is
\* present is appended
RECURSIVE SubsPresent(_, _, _)
SubsPresent(d, i, j) ==
    IF j > NumSubSegments THEN <<>>
    ELSE (IF d.Sub[i][j] # Absent THEN <<d.Sub[i][j]>> ELSE <<>>)
         \o SubsPresent(d, i, j + 1)

RECURSIVE SegmentsPresent(_, _)
SegmentsPresent(d, i) ==
    IF i > NumSegments THEN <<>>
    ELSE (IF d.Segment[i] # Absent
          THEN <<[name |-> d.Segment[i], subSegments |-> SubsPresent(d, i, 1)]>>
          ELSE <<>>)
         \o SegmentsPresent(d, i + 1)

materialize_row(d) == SegmentsPresent(d, 1)

\* [data.get("CompanyN", "") for N in 1..10]
companies_of(d) == [i \in 1..NumCompanies |-> Get(d.Company[i], <<>>)]

-----------------------------------------------------------------------------
(* The per-row pipeline of bulk synthesis: generate_single_document *)

\* the parameters of replace_header_textbox (doc, market_name, location),
\* none with a default, and the arguments generate_single_document calls it
\* with (doc and one dictionary)
HeaderTextboxParams == 3
RowPipelineHeaderArgs == 2

\* calling a function with fewer positional arguments than it has
\* parameters without default raises TypeError before its body runs
header_call_raises == RowPipelineHeaderArgs # HeaderTextboxParams

\* the steps after the market name: segments, pruning, companies, zones,
\* markers, references
row_pipeline_tail(d0, d) ==
    LET segmentations == materialize_row(d)
        d1 == replace_segments(d0, segmentations)
        d2 == clean_empty_segments(d1)
        d3 == replace_companies(d2, companies_of(d))
        d4 == remove_unused_sections(d3, segmentations)
        d5 == clean_all_segment_markers(d4)
    IN  update_document_references(d5)

generate_single_document(d, onDisk) ==
    LET path == get_template_path(
                    d.template_type,
                    IF d.template_type = "Regional" THEN d.region ELSE Absent,
                    onDisk)
        d0 == Template(path.v)
        region == d.region
        country == d.country
        market_name == Get(d.market_name, <<>>)
        \* region / country step
        scoped ==
            IF d.template_type = "Regional"
            THEN IF validate_region_raises(region) THEN Raise("ValueError")
                 ELSE IF replace_text_raises(d0, RegionKey, region)
                      THEN Raise("TypeError")
                 ELSE IF header_call_raises THEN Raise("TypeError")
                 ELSE Ok(replace_region(d0, region))
            ELSE IF d.template_type = "Country"
            THEN IF replace_text_raises(d0, CountryKey, country)
                 THEN Raise("TypeError")
                 ELSE IF header_call_raises THEN Raise("TypeError")
                 ELSE Ok(replace_country(d0, country))
            ELSE Ok(d0)
        \* market name step
        named ==
            IF ~Truthy(market_name) THEN scoped
            ELSE IF replace_text_raises(scoped.v, MarketNameKey, market_name)
                 THEN Raise("TypeError")
            ELSE IF header_call_raises THEN Raise("TypeError")
            ELSE Ok(replace_textbox_text(
                        replace_text(scoped.v, MarketNameKey, market_name),
                        MarketNameKey, market_name))
    IN  IF ~path.ok THEN path
        ELSE IF ~scoped.ok THEN scoped
        ELSE IF ~named.ok THEN named
        ELSE Ok(row_pipeline_tail(named.v, d))

-----------------------------------------------------------------------------
(* The single-document handler: generate_word_doc *)

NoResponse == [code |-> 0, kind |-> "none", doc |-> NoDoc, filename |-> <<>>,
               error |-> ""]

\* data.get("template_type", "Global")
TemplateType(d) ==
    IF d.template_type = "<absent>" THEN "Global" ELSE d.template_type

\* the except clauses of the handler
ErrorResponse(e, message) ==
    [code |-> IF e = "FileNotFoundError" THEN 404
              ELSE IF e = "ValueError" THEN 400 ELSE 500,
     kind |-> "json", doc |-> NoDoc, filename |-> <<>>, error |-> message]

Fail(e, message) ==
    /\ pc' = "done"
    /\ response' = ErrorResponse(e, message)
    /\ UNCHANGED <<data, assets, doc>>

Step(name, next, d) ==
    /\ pc' = next
    /\ doc' = d
    /\ trace' = Append(trace, name)
    /\ UNCHANGED <<data, assets, response>>

ResolvedPath ==
    get_template_path(TemplateType(data),
                      IF TemplateType(data) = "Regional" THEN data.region
                      ELSE Absent,
                      assets)

Resolve ==
    /\ pc = "resolve"
    /\ IF ResolvedPath.ok
       THEN Step("resolve", "load", doc)
       ELSE /\ Fail(ResolvedPath.err,
                    template_message(TemplateType(data),
                                     IF TemplateType(data) = "Regional"
                                     THEN data.region ELSE Absent,
                                     assets))
            /\ trace' = Append(trace, "resolve")
    /\ UNCHANGED <<bulkVars, treeVars, storeVars, callVars>>

Load ==
    /\ pc = "load"
    /\ Step("load", "scope", Template(ResolvedPath.v))
    /\ UNCHANGED <<bulkVars, treeVars, storeVars, callVars>>

\* scope branches that do not test the country
scope_error_country_unchecked(d, tree0) ==
    IF TemplateType(d) = "Regional"
    THEN IF ~Truthy(d.region) \/ validate_region_raises(d.region)
         THEN "ValueError"
         ELSE IF replace_text_raises(tree0, RegionKey, d.region)
         THEN "TypeError" ELSE ""
    ELSE ""

\* the region and country branches: the exception they end with, "" if none
scope_error(d, tree0) ==
    IF TemplateType(d) = "Regional"
    THEN IF ~Truthy(d.region) \/ validate_region_raises(d.region)
         THEN "ValueError"
         ELSE IF replace_text_raises(tree0, RegionKey, d.region)
         THEN "TypeError" ELSE ""
    ELSE IF TemplateType(d) = "Country"
    THEN IF ~Truthy(d.country) THEN "ValueError"
         ELSE IF replace_text_raises(tree0, CountryKey, d.country)
         THEN "TypeError" ELSE ""
    ELSE ""

\* str(e) of the exception the region and country branches end with
scope_message(d, tree0) ==
    IF TemplateType(d) = "Regional"
    THEN IF ~Truthy(d.region) THEN "Region is required for Regional template"
         ELSE IF validate_region_raises(d.region) THEN "Invalid region"
         ELSE IF replace_text_raises(tree0, RegionKey, d.region)
         THEN "replace() argument 2 must be str" ELSE ""
    ELSE IF TemplateType(d) = "Country"
    THEN IF ~Truthy(d.country) THEN "Country is required for Country template"
         ELSE IF replace_text_raises(tree0, CountryKey, d.country)
         THEN "replace() argument 2 must be str" ELSE ""
    ELSE ""

SubstituteScope ==
    /\ pc = "scope"
    /\ IF scope_error(data, doc) # ""
       THEN /\ Fail(scope_error(data, doc), scope_message(data, doc))
            /\ trace' = Append(trace, "scope")
       ELSE Step("scope", "market",
                 IF TemplateType(data) = "Regional"
                 THEN replace_region(doc, data.region)
                 ELSE IF TemplateType(data) = "Country"
                 THEN replace_country(doc, data.country)
                 ELSE doc)
    /\ UNCHANGED <<bulkVars, treeVars, storeVars, callVars>>

SubstituteMarketName ==
    /\ pc = "market"
    /\ LET market_name == Get(data.market_name, <<>>)
       IN  Step("market", "segments",
                IF Truthy(market_name)
                THEN replace_textbox_text(
                        replace_text(doc, MarketNameKey, market_name),
                        MarketNameKey, market_name)
                ELSE doc)
    /\ UNCHANGED <<bulkVars, treeVars, storeVars, callVars>>

\* segment substitution followed at once by the removal of zones
SubstituteSegmentsThenZones ==
    /\ pc = "segments"
    /\ Step("segments", "zones", replace_segments(doc, materialize(data)))
    /\ UNCHANGED <<bulkVars, treeVars, storeVars, callVars>>

SubstituteSegments ==
    /\ pc = "segments"
    /\ Step("segments", "prune", replace_segments(doc, materialize(data)))
    /\ UNCHANGED <<bulkVars, treeVars, storeVars, callVars>>

PruneEmpty ==
    /\ pc = "prune"
    /\ Step("prune", "companies", clean_empty_segments(doc))
    /\ UNCHANGED <<bulkVars, treeVars, storeVars, callVars>>

SubstituteCompanies ==
    /\ pc = "companies"
    /\ Step("companies", "zones", replace_companies(doc, companies_of(data)))
    /\ UNCHANGED <<bulkVars, treeVars, storeVars, callVars>>

RemoveZones ==
    /\ pc = "zones"
    /\ Step("zones", "markers", remove_unused_sections(doc, materialize(data)))
    /\ UNCHANGED <<bulkVars, treeVars, storeVars, callVars>>

StripMarkers ==
    /\ pc = "markers"
    /\ Step("markers", "refs", clean_all_segment_markers(doc))
    /\ UNCHANGED <<bulkVars, treeVars, storeVars, callVars>>

RefreshReferences ==
    /\ pc = "refs"
    /\ Step("refs", "save", update_document_references(doc))
    /\ UNCHANGED <<bulkVars, treeVars, storeVars, callVars>>

\* doc.save(temp_path): the tree is written out as it is
SaveTemp ==
    /\ pc = "save"
    /\ Step("save", "header", doc)
    /\ UNCHANGED <<bulkVars, treeVars, storeVars, callVars>>

\* the location the header pass is called with; Absent when it is skipped
HeaderLocation(d) ==
    IF TemplateType(d) = "Country"
    THEN (IF Truthy(Get(d.country, <<>>)) THEN d.country ELSE Absent)
    ELSE IF TemplateType(d) = "Global" THEN <<"Global">>
    ELSE IF TemplateType(d) = "Regional"
    THEN (IF Truthy(Get(d.region, <<>>)) THEN d.region ELSE Absent)
    ELSE Absent

\* replace_header_textbox on the saved file, then Document(updated_path)
HeaderPass ==
    /\ pc = "header"
    /\ Step("header", "respond",
            IF HeaderLocation(data) = Absent THEN doc
            ELSE replace_header_textbox(doc, Get(data.market_name, <<>>),
                                        HeaderLocation(data)))
    /\ UNCHANGED <<bulkVars, treeVars, storeVars, callVars>>

\* Python: str(v) inside an f-string
Str(v) ==
    IF v = Absent THEN <<"None">>
    ELSE IF v = NaN THEN <<"nan">>
    ELSE IF v = Zero THEN <<"0">>
    ELSE v

Filename(d) ==
    LET market_name == Get(d.market_name, <<>>)
    IN  IF TemplateType(d) = "Regional"
        THEN Str(d.region) \o <<" ">> \o market_name \o <<" ", "Market.docx">>
        ELSE IF TemplateType(d) = "Country"
        THEN Str(d.country) \o <<" ">> \o market_name \o <<" ", "Market.docx">>
        ELSE <<"Global", " ">> \o market_name \o <<" ", "Market.docx">>

\* the in-memory file, the record in the metadata store and send_file
Respond ==
    /\ pc = "respond"
    /\ IF "single_record" \in faults
       THEN /\ Fail("PyMongoError", <<"store">>)
            /\ trace' = trace
       ELSE /\ pc' = "done"
            /\ trace' = Append(trace, "respond")
            /\ response' = [code |-> 200, kind |-> "document", doc |-> doc,
                            filename |-> Filename(data), error |-> ""]
            /\ UNCHANGED <<data, assets, doc>>
    /\ UNCHANGED <<bulkVars, treeVars, storeVars, callVars>>

-----------------------------------------------------------------------------
(* Requests to the single-document handler *)

MaxSegmentsIn == 3    \* segment keys 1..MaxSegmentsIn may be in a request
\* the sub-segment keys a request carries for each of its segments, and
\* the number of its company keys
SubChoices == {{}, {1}, {1, 2}, {2}}
CompanyChoices == {0, 1}

SegmentName(i) == <<"Seg" \o ToString(i)>>
SubName(i, j) == <<"Sub" \o ToString(i) \o "." \o ToString(j)>>
CompanyName(i) == <<"Co" \o ToString(i)>>

BaseData ==
    [template_type |-> "Global", region |-> Absent, country |-> Absent,
     market_name |-> <<"Drones">>,
     Segment |-> [i \in SegmentKeysIn |-> Absent],
     Sub |-> [i \in SegmentKeysIn |-> [j \in SubKeysIn |-> Absent]],
     Company |-> [i \in 1..NumCompanies |-> Absent]]

\* records that differ in template class, scope fields and market name
ScopeRequests ==
    {[BaseData EXCEPT !.template_type = tt, !.region = r, !.country = c,
                      !.market_name = m,
                      !.Segment[1] = SegmentName(1)]
        : tt \in {"Global", "Regional", "Country", "Other", "<absent>"},
          r \in {Absent, <<>>, Europe, <<"Mars">>},
          c \in {Absent, <<>>, <<"India">>},
          m \in {Absent, <<>>, <<"Drones">>}}

\* Global records that differ in the segment, sub-segment and company keys
\* they carry: a key is absent, empty or named
SegmentRequests ==
    {[BaseData EXCEPT
        !.Segment = [i \in SegmentKeysIn |->
                        IF i > MaxSegmentsIn \/ seg[i] = "absent" THEN Absent
                        ELSE IF seg[i] = "empty" THEN <<>>
                        ELSE SegmentName(i)],
        !.Sub = [i \in SegmentKeysIn |->
                    [j \in SubKeysIn |->
                        IF i <= MaxSegmentsIn /\ seg[i] # "absent" /\ j \in subs
                        THEN SubName(i, j) ELSE Absent]],
        !.Company = [i \in 1..NumCompanies |->
                        IF i <= nco THEN CompanyName(i) ELSE Absent]]
        : seg \in [1..MaxSegmentsIn -> {"absent", "empty", "named"}],
          subs \in SubChoices,
          nco \in CompanyChoices}

AssetChoices ==
    {AllAssets, AllAssets \ {"global_template.docx", "country_template.docx"},
     AllAssets \ {"europe_region_template.docx"}, {}}

IdleSingle ==
    /\ data = BaseData /\ assets = AllAssets /\ doc = NoDoc
    /\ pc = "idle" /\ trace = <<>> /\ response = NoResponse

\* records without market name whose segment and sub-segment keys have gaps
SparseRequests ==
    {[BaseData EXCEPT !.market_name = <<>>,
                      !.Segment[2] = SegmentName(2),
                      !.Sub[2][2] = SubName(2, 2)],
     [BaseData EXCEPT !.market_name = <<>>,
                      !.Segment[1] = SegmentName(1),
                      !.Sub[1][2] = SubName(1, 2),
                      !.Segment[3] = SegmentName(3)]}

\* records that carry every segment key, or every sub-segment key of
\* segment 1, up to one beyond the placeholder vocabulary
FullRequests ==
    {[BaseData EXCEPT !.market_name = m,
                      !.Segment = [i \in SegmentKeysIn |-> SegmentName(i)]]
        : m \in {<<>>, <<"Drones">>}}
    \cup {[BaseData EXCEPT !.market_name = m,
                           !.Segment[1] = SegmentName(1),
                           !.Sub[1] = [j \in SubKeysIn |-> SubName(1, j)]]
        : m \in {<<>>, <<"Drones">>}}

InitSingle ==
    /\ \/ data \in ScopeRequests /\ assets \in AssetChoices
       \/ data \in SegmentRequests /\ assets = AllAssets
       \/ data \in SparseRequests /\ assets = AllAssets
       \/ data \in FullRequests /\ assets = AllAssets
    /\ doc = NoDoc
    /\ pc = "resolve"
    /\ trace = <<>>
    /\ response = NoResponse

NextSingle ==
    \/ Resolve
    \/ Load
    \/ SubstituteScope
    \/ SubstituteMarketName
    \/ SubstituteSegments
    \/ PruneEmpty
    \/ SubstituteCompanies
    \/ RemoveZones
    \/ StripMarkers
    \/ RefreshReferences
    \/ SaveTemp
    \/ HeaderPass
    \/ Respond

-----------------------------------------------------------------------------
(* The bulk handler: generate_bulk_documents *)

NoBulkRecord == [status |-> "none", total_files |-> 0, successful_files |-> 0,
                 failed_files |-> 0, files |-> <<>>]
NoBulkResponse == [code |-> 0, kind |-> "none", entries |-> <<>>,
                   errors |-> <<>>]
NoResults == [success |-> 0, failed |-> 0, errors |-> <<>>]

\* the encodings the handler tries, in its order
encodings_misordered == <<"utf-8", "utf-8-sig", "cp1252", "latin1">>

encodings_to_try == <<"utf-8", "utf-8-sig", "latin1", "cp1252">>

NoTable == [columns |-> {}, rows |-> <<>>]

\* what decoding and pd.read_csv give for the file under one encoding:
\* the exception ("" when none) and the table
Unreadable(e) == [err |-> e, table |-> NoTable]
Parsed(t) == [err |-> "", table |-> t]

read_csv(file, encoding) == file[encoding]

\* the loop over the encodings: both except clauses go on to the next one
RECURSIVE DecodeFrom(_, _)
DecodeFrom(file, i) ==
    IF i > Len(encodings_to_try)
    THEN [csv_data |-> NoTable, successful_encoding |-> "None"]
    ELSE LET read == read_csv(file, encodings_to_try[i])
         IN  IF read.err = ""
             THEN [csv_data |-> read.table,
                   successful_encoding |-> encodings_to_try[i]]
             ELSE DecodeFrom(file, i + 1)

\* the head of the handler: decoding of the uploaded file
BulkDecode ==
    /\ bpc = "decode"
    /\ LET decoded == DecodeFrom(upload, 1)
       IN  IF decoded.successful_encoding = "None"
           THEN /\ bresponse' = [code |-> 400, kind |-> "json",
                                 entries |-> <<>>, errors |-> <<>>]
                /\ bpc' = "done"
                /\ table' = table
           ELSE /\ table' = decoded.csv_data
                /\ bpc' = "start"
                /\ bresponse' = bresponse
    /\ UNCHANGED <<upload, assets, rowIdx, results, archive, bulkRecord,
                   docRecords>>
    /\ UNCHANGED <<data, doc, pc, trace, response, treeVars, storeVars, callVars>>

required_columns == {"template_type", "market_name"}

\* a column test that looks for template_type alone
missing_columns_of_template_type(columns) == {"template_type"} \ columns

missing_columns(columns) == required_columns \ columns

\* pd.isna / pd.notna of a cell; a column the table lacks reads as None
IsNa(v) == v \in {NaN, Absent}

\* the checks at the head of the row's try block
row_validation_raises(row) ==
    \/ row.template_type \notin {"Global", "Regional", "Country"}
    \/ /\ row.template_type = "Regional"
       /\ (IsNa(row.region) \/ ~IsStr(row.region) \/ Strip(row.region) = <<>>)
    \/ /\ row.template_type = "Country"
       /\ (IsNa(row.country) \/ ~IsStr(row.country)
           \/ Strip(row.country) = <<>>)

\* doc_data: the row's cells under the keys of a single-document record
doc_data_of(row) ==
    [template_type |-> row.template_type,
     market_name |-> row.market_name,
     region |-> row.region,
     country |-> row.country,
     Segment |-> [i \in SegmentKeysIn |->
                    IF i <= NumSegments /\ ~IsNa(row.segment[i])
                    THEN Strip(Str(row.segment[i]))
                    ELSE Absent],
     Sub |-> [i \in SegmentKeysIn |->
                [j \in SubKeysIn |->
                    IF i <= NumSegments /\ j <= NumSubSegments
                       /\ ~IsNa(row.segment[i]) /\ ~IsNa(row.sub[i][j])
                    THEN Strip(Str(row.sub[i][j])) ELSE Absent]],
     Company |-> [i \in 1..NumCompanies |->
                    IF ~IsNa(row.company[i]) THEN Strip(Str(row.company[i]))
                    ELSE Absent]]

\* c.isalnum() or c in (' ', '_', '-', '.'), chunk by chunk
FilenameChunk(c) == c \notin {"&", "{", "}", "|", "\n", "/"}

row_filename(dd) ==
    LET raw == IF dd.template_type = "Regional"
               THEN Str(dd.region) \o <<"_">> \o Str(dd.market_name)
                    \o <<"_", "Market.docx">>
               ELSE IF dd.template_type = "Country"
               THEN Str(dd.country) \o <<"_">> \o Str(dd.market_name)
                    \o <<"_", "Market.docx">>
               ELSE Str(dd.market_name) \o <<"_", "Global", "_", "Market.docx">>
    IN  SelectSeq(raw, FilenameChunk)

\* an except clause that names ValueError alone
handled_value_errors_only(e) == e = "ValueError"

\* the exceptions the row's except clause catches
handled(e) == TRUE

\* a loop body that writes the archive entry before the document is made
process_row_entry_first(row, onDisk) ==
    IF row_validation_raises(row)
    THEN [err |-> "ValueError", filename |-> <<"undefined_file.docx">>,
          inserted |-> FALSE, written |-> FALSE]
    ELSE LET dd == doc_data_of(row)
             made == generate_single_document(dd, onDisk)
         IN  [err |-> made.err, filename |-> row_filename(dd),
              inserted |-> TRUE, written |-> TRUE]

\* what one pass through the loop body does with a row: the exception it
\* ends with ("" when none), the file name known at that point, whether the
\* document record was inserted and whether the archive got its entry
process_row(row, onDisk) ==
    IF row_validation_raises(row)
    THEN [err |-> "ValueError", filename |-> <<"undefined_file.docx">>,
          inserted |-> FALSE, written |-> FALSE]
    ELSE LET dd == doc_data_of(row)
             made == generate_single_document(dd, onDisk)
         IN  [err |-> made.err, filename |-> row_filename(dd),
              inserted |-> TRUE, written |-> made.ok]

\* the write sites of the two handlers
WriteSites ==
    {"single_record", "bulk_record", "doc_record", "row_completed",
     "row_failed", "job_completed", "job_failed"}

\* the outer except clause of the bulk handler: the record it leaves and
\* the response; when its own update raises, the exception leaves the
\* handler and the framework answers
AbortRecord(rec) ==
    IF rec.status # "none" /\ "job_failed" \notin faults
    THEN [rec EXCEPT !.status = "failed"]
    ELSE rec

AbortResponse(rec) ==
    [code |-> 500,
     kind |-> IF rec.status # "none" /\ "job_failed" \in faults
              THEN "unhandled" ELSE "json",
     entries |-> <<>>, errors |-> <<>>]

BulkStart ==
    /\ bpc = "start"
    /\ IF missing_columns(table.columns) = {}
       THEN IF "bulk_record" \in faults
            THEN /\ bulkRecord' = AbortRecord(bulkRecord)
                 /\ bresponse' = AbortResponse(bulkRecord)
                 /\ bpc' = "done"
            ELSE /\ bulkRecord' = [NoBulkRecord EXCEPT
                                     !.status = "processing"]
                 /\ bpc' = "loop"
                 /\ bresponse' = bresponse
       ELSE /\ bresponse' = [code |-> 400, kind |-> "json", entries |-> <<>>,
                             errors |-> <<>>]
            /\ bpc' = "done"
            /\ bulkRecord' = bulkRecord
    /\ UNCHANGED <<upload, table, assets, rowIdx, results, archive, docRecords>>
    /\ UNCHANGED <<data, doc, pc, trace, response, treeVars, storeVars, callVars>>

\* one pass through the loop body, the except clause included
BulkRow ==
    /\ bpc = "loop"
    /\ rowIdx < Len(table.rows)
    /\ \E p \in {process_row(table.rows[rowIdx + 1], assets)} :
       LET \* the insert of the document record may raise
           r == IF p.inserted /\ "doc_record" \in faults
                THEN [err |-> "PyMongoError", filename |-> p.filename,
                      inserted |-> FALSE, written |-> FALSE]
                ELSE p
           \* the update after a generated row may raise
           counted == r.err = ""
           e == IF counted /\ "row_completed" \in faults
                THEN "PyMongoError" ELSE r.err
           doc_record == [bulk |-> TRUE, row |-> rowIdx + 1,
                          filename |-> r.filename, status |-> "completed"]
       IN  /\ docRecords' = IF r.inserted THEN Append(docRecords, doc_record)
                            ELSE docRecords
           /\ archive' = IF r.written THEN Append(archive, r.filename)
                         ELSE archive
           /\ IF e = ""
              THEN /\ results' = [results EXCEPT !.success = @ + 1]
                   /\ bulkRecord' =
                        [bulkRecord EXCEPT
                            !.total_files = @ + 1,
                            !.successful_files = @ + 1,
                            !.files = Append(@, [row |-> rowIdx + 1,
                                                 filename |-> r.filename,
                                                 status |-> "completed",
                                                 error |-> ""])]
                   /\ rowIdx' = rowIdx + 1
                   /\ bpc' = "loop"
                   /\ bresponse' = bresponse
              ELSE IF handled(e)
              THEN /\ results' = [results EXCEPT
                                    !.success = IF counted THEN @ + 1 ELSE @,
                                    !.failed = @ + 1,
                                    !.errors = Append(@, [row |-> rowIdx + 1,
                                                          error |-> e])]
                   /\ IF "row_failed" \in faults
                      THEN /\ bulkRecord' = AbortRecord(bulkRecord)
                           /\ bresponse' = AbortResponse(bulkRecord)
                           /\ bpc' = "done"
                           /\ rowIdx' = rowIdx
                      ELSE /\ bulkRecord' =
                                [bulkRecord EXCEPT
                                    !.total_files = @ + 1,
                                    !.failed_files = @ + 1,
                                    !.files =
                                        Append(@, [row |-> rowIdx + 1,
                                                   filename |-> r.filename,
                                                   status |-> "failed",
                                                   error |-> e])]
                           /\ rowIdx' = rowIdx + 1
                           /\ bpc' = "loop"
                           /\ bresponse' = bresponse
              ELSE \* the outer except clause of the handler
                   /\ bulkRecord' = AbortRecord(bulkRecord)
                   /\ bresponse' = AbortResponse(bulkRecord)
                   /\ bpc' = "done"
                   /\ UNCHANGED <<results, rowIdx>>
    /\ UNCHANGED <<upload, table, assets>>
    /\ UNCHANGED <<data, doc, pc, trace, response, treeVars, storeVars, callVars>>

\* a final test that reports failure as soon as one row failed
final_response_on_any_failure(res, zip) ==
    IF res.failed > 0
    THEN [code |-> 500, kind |-> "json", entries |-> <<>>,
          errors |-> res.errors]
    ELSE [code |-> 200, kind |-> "zip", entries |-> zip, errors |-> <<>>]

\* the response after the loop
final_response(res, zip) ==
    IF res.failed > 0 /\ res.success = 0
    THEN [code |-> 500, kind |-> "json", entries |-> <<>>,
          errors |-> res.errors]
    ELSE [code |-> 200, kind |-> "zip", entries |-> zip, errors |-> <<>>]

\* after the loop: the final status and the response
BulkFinish ==
    /\ bpc = "loop"
    /\ rowIdx = Len(table.rows)
    /\ IF "job_completed" \in faults
       THEN /\ bulkRecord' = AbortRecord(bulkRecord)
            /\ bresponse' = AbortResponse(bulkRecord)
       ELSE /\ bulkRecord' = [bulkRecord EXCEPT !.status = "completed"]
            /\ bresponse' = final_response(results, archive)
    /\ bpc' = "done"
    /\ UNCHANGED <<upload, table, assets, rowIdx, results, archive, docRecords>>
    /\ UNCHANGED <<data, doc, pc, trace, response, treeVars, storeVars, callVars>>

-----------------------------------------------------------------------------
(* Tables given to the bulk handler *)

MaxRows == 3   \* rows of a table

BaseRow ==
    [template_type |-> "Global", market_name |-> <<"Drones">>,
     region |-> NaN, country |-> NaN,
     segment |-> [i \in 1..NumSegments |-> NaN],
     sub |-> [i \in 1..NumSegments |-> [j \in 1..NumSubSegments |-> NaN]],
     company |-> [i \in 1..NumCompanies |-> NaN]]

\* a Global row of a table whose market_name column is numeric and holds 0
GlobalZeroRow ==
    [BaseRow EXCEPT !.market_name = Zero,
                    !.segment[1] = <<"Consumer">>,
                    !.sub[1][1] = <<"Hobby">>,
                    !.company[1] = <<"Acme">>]
\* valid rows of the three template classes
GlobalRow == [BaseRow EXCEPT !.segment[1] = <<"Consumer">>]
RegionalRow == [BaseRow EXCEPT !.template_type = "Regional", !.region = Europe]
CountryRow == [BaseRow EXCEPT !.template_type = "Country",
                              !.country = <<"India">>]
\* invalid rows
RegionalNoRegionRow == [BaseRow EXCEPT !.template_type = "Regional"]
BadTypeRow == [BaseRow EXCEPT !.template_type = "Other"]

RowChoices == {GlobalZeroRow, GlobalRow, CountryRow, RegionalNoRegionRow}

\* a row the spec calls valid: recognized template type, market name
\* given, scope field present and valid, template asset on disk
ValidRow(row, onDisk) ==
    /\ row.template_type \in {"Global", "Regional", "Country"}
    /\ Truthy(row.market_name) /\ IsStr(row.market_name)
    /\ row.template_type = "Regional" => row.region \in valid_regions
    /\ row.template_type = "Country" =>
          IsStr(row.country) /\ Strip(row.country) # <<>>
    /\ get_template_path(row.template_type, row.region, onDisk).ok

RECURSIVE Tables(_)
Tables(n) ==
    IF n = 0 THEN {<<>>}
    ELSE LET shorter == Tables(n - 1)
         IN  shorter \cup {Append(t, r) : t \in {s \in shorter : Len(s) = n - 1},
                                         r \in RowChoices}

\* further tables: other valid and invalid rows after a row that succeeds
OtherTables ==
    {<<GlobalZeroRow, r, GlobalZeroRow>> : r \in {RegionalRow, BadTypeRow}}
    \cup {<<GlobalRow, CountryRow, RegionalNoRegionRow, RegionalRow, GlobalRow>>}

AllColumns == required_columns \cup {"region", "country", "segment1"}

\* the columns of tables that lack a required column, and their rows
LackingColumns ==
    {AllColumns \ {"template_type"}, AllColumns \ {"market_name"},
     AllColumns \ required_columns}

LackingTables ==
    {<<>>, <<BadTypeRow>>, <<GlobalZeroRow>>, <<GlobalZeroRow, GlobalRow>>}

Encodings == {"utf-8", "utf-8-sig", "latin1", "cp1252"}

\* a file that reads as the same table under every encoding
PlainFile(t) == [e \in Encodings |-> Parsed(t)]

\* files that do not: undecodable or unparsable under some encodings, and
\* read as different tables under the others
OneRowTable(row) == [columns |-> AllColumns, rows |-> <<row>>]

OtherFiles ==
    {[e \in Encodings |->
        IF e \in {"utf-8", "utf-8-sig"} THEN Unreadable("UnicodeDecodeError")
        ELSE IF e = "latin1" THEN Parsed(OneRowTable(GlobalZeroRow))
        ELSE Parsed(OneRowTable(BadTypeRow))],
     [e \in Encodings |->
        IF e = "utf-8" THEN Unreadable("ParserError")
        ELSE IF e = "utf-8-sig" THEN Parsed(OneRowTable(GlobalRow))
        ELSE Parsed(OneRowTable(GlobalZeroRow))],
     [e \in Encodings |->
        IF e = "cp1252" THEN Parsed(OneRowTable(GlobalZeroRow))
        ELSE IF e = "latin1" THEN Unreadable("ParserError")
        ELSE Unreadable("UnicodeDecodeError")],
     [e \in Encodings |->
        IF e \in {"utf-8", "utf-8-sig"} THEN Unreadable("UnicodeDecodeError")
        ELSE Unreadable("ParserError")],
     [e \in Encodings |-> Unreadable("EmptyDataError")]}

IdleBulk ==
    /\ upload = PlainFile(NoTable)
    /\ table = NoTable
    /\ rowIdx = 0 /\ results = NoResults /\ archive = <<>>
    /\ bulkRecord = NoBulkRecord /\ docRecords = <<>>
    /\ bpc = "idle" /\ bresponse = NoBulkResponse

NoArg == [placeholder |-> <<>>, replacement |-> <<>>, segmentations |-> <<>>]

\* a store in which every write succeeds
StoreUp == faults = {}

\* no concurrent requests
IdleCalls == calls = <<>> /\ disk = <<>>

IdleTree ==
    /\ tree = NoDoc /\ arg = NoArg /\ once = NoDoc /\ twice = NoDoc
    /\ stage = "idle"

\* the bulk handler at its entry
BulkEntry ==
    /\ table = NoTable
    /\ rowIdx = 0
    /\ results = NoResults
    /\ archive = <<>>
    /\ bulkRecord = NoBulkRecord
    /\ docRecords = <<>>
    /\ bpc = "decode"
    /\ bresponse = NoBulkResponse

Init ==
    /\ \/ \E t \in [columns : {AllColumns} \cup LackingColumns,
                     rows : Tables(MaxRows) \cup OtherTables
                            \cup {<<BadTypeRow>>}] :
             /\ t.columns # AllColumns => t.rows \in LackingTables
             /\ upload = PlainFile(t)
             /\ assets \in {AllAssets, AllAssets \ {"country_template.docx"}}
             /\ assets # AllAssets => Len(t.rows) <= 2
       \/ upload \in OtherFiles /\ assets = AllAssets
    /\ BulkEntry
    /\ data = BaseData /\ doc = NoDoc /\ pc = "idle" /\ trace = <<>>
    /\ response = NoResponse
    /\ IdleTree
    /\ StoreUp
    /\ IdleCalls

Next == BulkDecode \/ BulkStart \/ BulkRow \/ BulkFinish

Spec == Init /\ [][Next]_vars

-----------------------------------------------------------------------------
(* The single-document handler on its own *)

InitSingleSpec == InitSingle /\ IdleBulk /\ IdleTree /\ StoreUp /\ IdleCalls

SpecSingle == InitSingleSpec /\ [][NextSingle]_vars

-----------------------------------------------------------------------------
(* Both handlers over a metadata store that raises at some write sites *)

\* one write site fails, or the store is down for the whole request, or it
\* goes down after the bulk-job record was inserted
FaultChoices ==
    {{site} : site \in WriteSites}
    \cup {WriteSites, WriteSites \ {"bulk_record"}}

StoreTables ==
    {<<GlobalZeroRow>>, <<GlobalZeroRow, GlobalZeroRow>>,
     <<GlobalZeroRow, RegionalNoRegionRow>>,
     <<RegionalNoRegionRow, GlobalZeroRow>>}

StoreRequests ==
    {d \in ScopeRequests :
        /\ d.template_type \in {"Global", "Regional", "Country"}
        /\ d.market_name = <<"Drones">>}

InitStore ==
    /\ faults \in FaultChoices
    /\ \/ /\ \E rows \in StoreTables :
                upload = PlainFile([columns |-> AllColumns, rows |-> rows])
          /\ BulkEntry
          /\ IdleSingle
       \/ /\ data \in StoreRequests /\ assets = AllAssets
          /\ doc = NoDoc /\ pc = "resolve" /\ trace = <<>>
          /\ response = NoResponse
          /\ IdleBulk
    /\ IdleTree
    /\ IdleCalls

NextStore ==
    \/ BulkDecode
    \/ BulkStart
    \/ BulkRow
    \/ BulkFinish
    \/ Resolve
    \/ Load
    \/ SubstituteScope
    \/ SubstituteMarketName
    \/ SubstituteSegments
    \/ PruneEmpty
    \/ SubstituteCompanies
    \/ RemoveZones
    \/ StripMarkers
    \/ RefreshReferences
    \/ SaveTemp
    \/ HeaderPass
    \/ Respond

SpecStore == InitStore /\ [][NextStore]_vars

\* The bulk handler runs to its response: each of its steps is taken once
\* it can be. A pass through the loop body is named by what it does to the
\* position of the handler, which BulkRow alone does in this way.
LoopPass ==
    /\ bpc = "loop"
    /\ rowIdx < Len(table.rows)
    /\ \/ rowIdx' = rowIdx + 1 /\ bpc' = "loop"
       \/ rowIdx' = rowIdx /\ bpc' = "done"

SpecStoreFair ==
    /\ SpecStore
    /\ WF_vars(BulkDecode)
    /\ WF_vars(BulkStart)
    /\ WF_<<bpc, rowIdx>>(LoopPass)
    /\ WF_vars(BulkFinish)

-----------------------------------------------------------------------------
(* The tree passes applied directly: replace_text once and twice, and      *)
(* remove_unused_sections followed by clean_all_segment_markers            *)

MaxBlocks == 3   \* top-level blocks of a tree

\* marker text that holds a marker inside itself
NestedStartMarker ==
    <<"{", "{", "Segment", "1", "_">> \o StartMarker(1) \o <<"Start", "}", "}">>

OneCell(t) == Tbl(<< << <<t>> >> >>)

BlockChoices ==
    {Para(<<"Intro">>),
     Para(StartMarker(1)),
     Para(EndMarker(1)),
     Para(StartMarker(1) \o <<"Both">> \o EndMarker(1)),
     Para(<<"About">> \o MarketNameKey),
     OneCell(StartMarker(1) \o <<"Cell">> \o EndMarker(1)),
     OneCell(NestedStartMarker)}

RECURSIVE Bodies(_)
Bodies(n) ==
    IF n = 0 THEN {<<>>}
    ELSE LET shorter == Bodies(n - 1)
         IN  shorter \cup {Append(b, c) : b \in {s \in shorter : Len(s) = n - 1},
                                         c \in BlockChoices}

TreeOf(body) ==
    [NoDoc EXCEPT !.body = body, !.hdr = << <<"Report">> \o MarketNameKey >>,
                  !.loaded = TRUE]

Segment1Named == <<[name |-> SegmentName(1), subSegments |-> <<>>]>>

ArgChoices ==
    {[placeholder |-> MarketNameKey, replacement |-> <<"Drones">>,
      segmentations |-> <<>>],
     [placeholder |-> MarketNameKey, replacement |-> <<"Drones">>,
      segmentations |-> Segment1Named],
     [placeholder |-> MarketNameKey, replacement |-> <<"Smart">> \o MarketNameKey,
      segmentations |-> <<>>],
     [placeholder |-> MarketNameKey, replacement |-> <<>>,
      segmentations |-> Segment1Named]}

InitTree ==
    /\ tree \in {TreeOf(b) : b \in Bodies(MaxBlocks) \ {<<>>}}
    /\ arg \in ArgChoices
    /\ once = NoDoc
    /\ twice = NoDoc
    /\ stage = "start"

TreeReplace ==
    /\ stage = "start"
    /\ once' = replace_text(tree, arg.placeholder, arg.replacement)
    /\ stage' = "replaced"
    /\ UNCHANGED <<tree, arg, twice, singleVars, bulkVars, storeVars, callVars>>

TreeReplaceAgain ==
    /\ stage = "replaced"
    /\ twice' = replace_text(once, arg.placeholder, arg.replacement)
    /\ stage' = "replaced_twice"
    /\ UNCHANGED <<tree, arg, once, singleVars, bulkVars, storeVars, callVars>>

TreeRemoveZones ==
    /\ stage = "start"
    /\ once' = remove_unused_sections(tree, arg.segmentations)
    /\ stage' = "zoned"
    /\ UNCHANGED <<tree, arg, twice, singleVars, bulkVars, storeVars, callVars>>

TreeCleanMarkers ==
    /\ stage = "zoned"
    /\ twice' = clean_all_segment_markers(once)
    /\ stage' = "cleaned"
    /\ UNCHANGED <<tree, arg, once, singleVars, bulkVars, storeVars, callVars>>

NextTree ==
    \/ TreeReplace
    \/ TreeReplaceAgain
    \/ TreeRemoveZones
    \/ TreeCleanMarkers

InitTreeSpec ==
    InitTree /\ IdleSingle /\ IdleBulk /\ StoreUp /\ IdleCalls

SpecTree == InitTreeSpec /\ [][NextTree]_vars

-----------------------------------------------------------------------------
(* Properties of the bulk handler *)

\* the outcome the bulk-job record holds for row i
Outcome(i) == bulkRecord.files[i]

LoopEntered == bulkRecord.status # "none"

\* C1: a row's failure never aborts the batch: whatever a row ends with,
\* the loop goes on, so that after k rows the bulk-job record holds one
\* outcome for each of the rows 1..k, and the handler finishes only after
\* the last row, with an outcome for every row of the table.
C1_RowFailureNeverAborts ==
    LoopEntered =>
        /\ Len(bulkRecord.files) = rowIdx
        /\ \A i \in 1..rowIdx : Outcome(i).row = i
        /\ bpc = "done" => /\ rowIdx = Len(table.rows)
                           /\ bulkRecord.status = "completed"

\* a row that failed validation and a row whose synthesis raised are both
\* followed by a row that is completed
C1_Witness ==
    /\ bpc = "done"
    /\ \E i, j, k \in 1..Len(bulkRecord.files) :
          /\ i < k /\ j < k
          /\ Outcome(i).status = "failed" /\ Outcome(i).error = "ValueError"
          /\ row_validation_raises(table.rows[i])
          /\ Outcome(j).status = "failed" /\ Outcome(j).error = "TypeError"
          /\ Outcome(k).status = "completed"

AllRowsFailed ==
    /\ Len(table.rows) >= 1
    /\ \A i \in 1..Len(table.rows) : Outcome(i).status = "failed"

SomeRowCompleted ==
    \E i \in 1..Len(table.rows) : Outcome(i).status = "completed"

\* C2: after all rows: when at least one row was processed and every row
\* failed, the response is the total failure (500) with the list of errors,
\* one per row, and no archive; when at least one row succeeded, the
\* response is the archive.
C2_TotalFailureOrArchive ==
    (LoopEntered /\ bpc = "done" /\ Len(bulkRecord.files) = Len(table.rows)) =>
        /\ AllRowsFailed =>
              /\ bresponse.kind = "json" /\ bresponse.code = 500
              /\ bresponse.entries = <<>>
              /\ Len(bresponse.errors) = Len(table.rows)
              /\ \A i \in 1..Len(table.rows) :
                    /\ bresponse.errors[i].row = i
                    /\ bresponse.errors[i].error = Outcome(i).error
        /\ SomeRowCompleted =>
              /\ bresponse.kind = "zip" /\ bresponse.code = 200
              /\ bresponse.entries = archive

C2_Witness ==
    /\ bpc = "done" /\ LoopEntered
    /\ Len(table.rows) >= 2
    /\ AllRowsFailed
    /\ bresponse.code = 500

RegionalWithoutRegion(row) ==
    /\ row.template_type = "Regional"
    /\ (IsNa(row.region) \/ row.region = <<>>)

\* C4: every valid row (recognized template_type, non-empty market_name,
\* required region or country present and valid, template asset present) is
\* recorded as completed and contributes one archive entry, and every
\* Regional row without region is recorded as failed.
C4_ValidRowsSucceed ==
    LoopEntered =>
        /\ \A i \in 1..Len(bulkRecord.files) :
              /\ ValidRow(table.rows[i], assets) =>
                    Outcome(i).status = "completed"
              /\ RegionalWithoutRegion(table.rows[i]) =>
                    Outcome(i).status = "failed"
        /\ Len(archive) =
              Cardinality({i \in 1..Len(bulkRecord.files) :
                              ValidRow(table.rows[i], assets)})

-----------------------------------------------------------------------------
(* Properties of the single-document handler *)

Succeeded == pc = "done" /\ response.kind = "document"

\* every text of a document: body paragraphs, table cells, header
\* paragraphs, header textboxes and drawing text
OutputTexts(d) ==
    BodyTexts(d) \cup Range(d.hdr) \cup {TxbxText(d.txbx[i]) : i \in DOMAIN d.txbx}
    \cup Range(d.atext)

\* C5: completeness: when single-document synthesis succeeds, no token of
\* the closed placeholder vocabulary remains in the output.
C5_NoPlaceholderRemains ==
    Succeeded =>
        \A t \in OutputTexts(response.doc) :
            \A token \in Vocabulary : ~Contains(t, token)

\* the request supplies Segment1 and Segment3 and no other segment
OnlySegments1And3(d) ==
    \A i \in 1..NumSegments :
        IF i \in {1, 3} THEN d.Segment[i] = SegmentName(i)
        ELSE d.Segment[i] = Absent

\* the content block of zone n in a template
ZoneContent(n) == <<"Overview", ToString(n)>>

\* C6: pruning correctness: with only Segment1 and Segment3 supplied, the
\* blocks of zones 2, 4, 5 and 6 are absent from the output, the content
\* blocks of zones 1 and 3 are present and their markers are gone.
C6_PruningCorrect ==
    (Succeeded /\ OnlySegments1And3(data)) =>
        LET texts == Range(ParaTexts(response.doc))
        IN  /\ \A n \in {2, 4, 5, 6} :
                  /\ ZoneContent(n) \notin texts
                  /\ \A t \in texts : ~Contains(t, StartMarker(n))
                                      /\ ~Contains(t, EndMarker(n))
            /\ \A n \in {1, 3} :
                  /\ ZoneContent(n) \in texts
                  /\ \A t \in texts : ~Contains(t, StartMarker(n))
                                      /\ ~Contains(t, EndMarker(n))

\* C9: the per-row pipeline of the bulk handler ends as the single-document
\* pipeline does on the same record: it fails in the same cases and
\* otherwise yields the same document.
C9_RowPipelineIsSinglePipeline ==
    pc = "done" =>
        \E made \in {generate_single_document(data, assets)} :
            /\ made.ok <=> response.kind = "document"
            /\ made.ok => made.v = response.doc

\* the failures the claim names, read off the request and the assets
UnrecognizedType(d) == TemplateType(d) \notin {"Global", "Regional", "Country"}

MissingScopeField(d) ==
    \/ TemplateType(d) = "Regional" /\ Get(d.region, <<>>) = <<>>
    \/ TemplateType(d) = "Country" /\ Get(d.country, <<>>) = <<>>

InvalidRegion(d) ==
    /\ TemplateType(d) = "Regional"
    /\ Get(d.region, <<>>) \notin {<<>>} \cup valid_regions

MissingAsset(d, onDisk) ==
    \/ TemplateType(d) = "Global" /\ "global_template.docx" \notin onDisk
    \/ TemplateType(d) = "Country" /\ "country_template.docx" \notin onDisk
    \/ /\ TemplateType(d) = "Regional" /\ d.region \in valid_regions
       /\ RegionFile(d.region) \notin onDisk

\* C10: single-document synthesis of a request with a missing template
\* asset, an unrecognized template type, an invalid region or a missing
\* scope field ends with an error response (400 or 404) that carries no
\* document, and no file was written on the way.
C10_ErrorsLeaveNoArtifact ==
    (pc = "done" /\ (\/ UnrecognizedType(data) \/ MissingScopeField(data)
                     \/ InvalidRegion(data) \/ MissingAsset(data, assets))) =>
        /\ response.kind = "json"
        /\ response.code \in {400, 404}
        /\ response.doc = NoDoc
        /\ "save" \notin Range(trace)

\* a Country request without country fails after its template was loaded
C10_Witness ==
    /\ pc = "done"
    /\ TemplateType(data) = "Country" /\ MissingScopeField(data)
    /\ "load" \in Range(trace)
    /\ response.code = 400

-----------------------------------------------------------------------------
(* Properties of the tree passes *)

\* C7: after zone removal and marker stripping no Start or End marker
\* remains in a body paragraph or in a table-cell paragraph.
C7_NoMarkerRemains ==
    stage = "cleaned" =>
        \A t \in BodyTexts(twice) : \A m \in Markers : ~Contains(t, m)

\* the paragraph texts of a tree: body, table cells and header paragraphs
StructuralTexts(d) == <<d.body, d.hdr>>

\* C8: structural substitution is idempotent: replace_text applied twice
\* yields the same paragraph texts as replace_text applied once.
C8_ReplaceTextIdempotent ==
    stage = "replaced_twice" => StructuralTexts(twice) = StructuralTexts(once)

-----------------------------------------------------------------------------
(* Properties of the template resolver as the single handler calls it *)

RegionalWithoutRegionField(d) ==
    TemplateType(d) = "Regional" /\ Get(d.region, <<>>) = <<>>

\* C11: a Regional request whose region is absent or empty fails before the
\* template is loaded: at no point of the call is there a document tree,
\* and the call ends with the error response.
C11_NoTreeWithoutRegion ==
    RegionalWithoutRegionField(data) =>
        /\ doc = NoDoc
        /\ "load" \notin Range(trace)
        /\ pc \in {"resolve", "done"}
        /\ pc = "done" => response.kind = "json" /\ response.code = 400

C11_Witness ==
    /\ RegionalWithoutRegionField(data)
    /\ data.region = Absent
    /\ pc = "done"
    /\ response.code = 400
    /\ trace = <<"resolve">>

Resolved == "resolve" \in Range(trace)

\* the resolver returned an identifier: the handler went on to load it
ResolverReturned == Resolved /\ "load" \in Range(trace) \cup {pc}

\* the resolver failed with the given exception and message
ResolverFailed(code, messages) ==
    /\ pc = "done" /\ trace = <<"resolve">>
    /\ response.kind = "json" /\ response.code = code
    /\ response.error \in messages

\* C12: the resolver fails with an invalid-region error for Regional with
\* an absent, empty or unknown region and with an invalid-template-type
\* error for a class outside Global, Regional, Country, both whatever
\* assets exist; it returns an identifier exactly when the inputs are valid
\* and the asset exists, and fails with template-not-found otherwise.
C12_ResolverOutcomes ==
    Resolved =>
        /\ (MissingScopeField(data) /\ TemplateType(data) = "Regional") =>
              ResolverFailed(400, {"Region is required for Regional template"})
        /\ InvalidRegion(data) => ResolverFailed(400, {"Invalid region"})
        /\ UnrecognizedType(data) =>
              ResolverFailed(400, {"Invalid template type"})
        /\ (/\ ~UnrecognizedType(data) /\ ~InvalidRegion(data)
            /\ ~RegionalWithoutRegionField(data)) =>
              IF MissingAsset(data, assets)
              THEN ResolverFailed(404, {"Template file not found"})
              ELSE ResolverReturned

\* the type is not recognized and no asset exists at all
C12_Witness ==
    /\ Resolved
    /\ UnrecognizedType(data)
    /\ assets = {}
    /\ response.error = "Invalid template type"

-----------------------------------------------------------------------------
(* Further properties of the bulk handler *)

\* the file was read as a table that lacks a required column
LacksRequiredColumn ==
    /\ bpc # "decode"
    /\ \E e \in DOMAIN upload : upload[e].err = ""
    /\ ~(required_columns \subseteq table.columns)

\* C13: a table that lacks the template_type or the market_name column
\* fails as a whole before any row is processed: no row is looked at, no
\* outcome or record is written, no archive entry exists, and the response
\* is the 400 error.
C13_MissingColumnsFailBatch ==
    LacksRequiredColumn =>
        /\ rowIdx = 0
        /\ bulkRecord = NoBulkRecord
        /\ docRecords = <<>>
        /\ results = NoResults
        /\ archive = <<>>
        /\ bpc \in {"start", "done"}
        /\ bpc = "done" => /\ bresponse.kind = "json" /\ bresponse.code = 400
                           /\ bresponse.entries = <<>>

\* a table of two rows without the market_name column was refused
C13_Witness ==
    /\ "market_name" \notin table.columns
    /\ "template_type" \in table.columns
    /\ Len(table.rows) >= 2
    /\ bpc = "done"
    /\ bresponse.code = 400

\* ---------------------------------------------------------------------
\* C14: the uploaded file is read under utf-8, utf-8-sig, latin1 and
\* cp1252 in that order, and the batch uses the table of the first of them
\* under which both decoding and parsing succeed; when there is none the
\* upload is rejected as unreadable and no row is processed.
ClaimedEncodingOrder == <<"utf-8", "utf-8-sig", "latin1", "cp1252">>

ReadableAt ==
    {i \in 1..Len(ClaimedEncodingOrder) :
        upload[ClaimedEncodingOrder[i]].err = ""}

FirstReadable == CHOOSE i \in ReadableAt : \A j \in ReadableAt : i <= j

C14_FirstSuccessfulEncoding ==
    bpc # "decode" =>
        IF ReadableAt = {}
        THEN /\ bpc = "done"
             /\ bresponse.code = 400 /\ bresponse.kind = "json"
             /\ rowIdx = 0 /\ results = NoResults /\ archive = <<>>
             /\ bulkRecord = NoBulkRecord /\ docRecords = <<>>
        ELSE table = upload[ClaimedEncodingOrder[FirstReadable]].table

\* a file that utf-8 and utf-8-sig cannot decode and that reads as one
\* table under latin1 and as another under cp1252, with its row processed
C14_Witness ==
    /\ bpc = "done" /\ rowIdx = 1
    /\ upload["utf-8"].err # "" /\ upload["utf-8-sig"].err # ""
    /\ upload["latin1"].err = "" /\ upload["cp1252"].err = ""
    /\ upload["latin1"].table # upload["cp1252"].table
    /\ table = upload["latin1"].table

\* ---------------------------------------------------------------------
\* C15: every bulk job whose row loop ran to the end, a job where only some
\* rows failed included, returns a result that tells for each input row
\* whether it succeeded or failed: the rows the response reports as failed
\* are exactly the rows that failed, and every completed row has its
\* document in the returned archive.
LoopRanToTheEnd ==
    /\ LoopEntered /\ bpc = "done"
    /\ Len(bulkRecord.files) = Len(table.rows)

ReportedFailed ==
    {bresponse.errors[k].row : k \in 1..Len(bresponse.errors)}

C15_ResultIdentifiesEveryRow ==
    LoopRanToTheEnd =>
        \A i \in 1..Len(table.rows) :
            /\ Outcome(i).status = "failed" <=> i \in ReportedFailed
            /\ Outcome(i).status = "completed" =>
                  \E k \in 1..Len(bresponse.entries) :
                      bresponse.entries[k] = Outcome(i).filename

\* ---------------------------------------------------------------------
\* C16: the output does not depend on the metadata store: when a write to
\* the store raises, a single synthesis that generated its document still
\* returns it, and a bulk synthesis still processes every row and returns
\* the archive with the document of every row that can be generated.
DocumentGenerated ==
    pc = "done" /\ \E k \in 1..Len(trace) : trace[k] = "header"

Generable(i) == process_row(table.rows[i], assets).err = ""

C16_OutputIndependentOfStore ==
    /\ DocumentGenerated =>
          response.code = 200 /\ response.kind = "document"
    /\ bpc = "done" =>
          /\ rowIdx = Len(table.rows)
          /\ \A i \in 1..Len(table.rows) :
                Generable(i) =>
                    /\ bresponse.kind = "zip"
                    /\ \E k \in 1..Len(bresponse.entries) :
                          bresponse.entries[k] =
                              process_row(table.rows[i], assets).filename

-----------------------------------------------------------------------------
(* Concurrent requests to the single-document handler: each request has   *)
(* its own tree; the template assets and the temporary files are on disk  *)

NumCalls == 2   \* requests in flight

Calls == 1..NumCalls

\* os.path.join(current_app.root_path, 'templates', template_filename)
template_path(filename) == <<"templates", filename>>

AssetsOnDisk == {f \in AllAssets : template_path(f) \in DOMAIN disk}

\* a temporary file whose name is fixed
named_temporary_file_fixed(onDisk, issued) == {<<"tmp1", ".docx">>}

\* tempfile.NamedTemporaryFile(delete=False, suffix='.docx'): the names it
\* may return. The file is created exclusively, so the name does not exist;
\* the name is drawn at random from 37^8 names, which is taken here as: a
\* name that was handed out before is not drawn again
named_temporary_file(onDisk, issued) ==
    {<<"tmp" \o ToString(i), ".docx">> : i \in 1..NumCalls}
        \ (onDisk \cup issued)

\* base, ext = os.path.splitext(doc_path); f"{base}_filled{ext}"
output_path(doc_path) == <<doc_path[1] \o "_filled", doc_path[2]>>

WriteFile(path, content) ==
    [p \in DOMAIN disk \cup {path} |-> IF p = path THEN content ELSE disk[p]]

RemoveFile(path) == [p \in DOMAIN disk \ {path} |-> disk[p]]

\* the tree passes between loading and the first serialization
fill_tree(d, tree0) ==
    LET market_name == Get(d.market_name, <<>>)
        scoped == IF TemplateType(d) = "Regional"
                  THEN replace_region(tree0, d.region)
                  ELSE IF TemplateType(d) = "Country"
                  THEN replace_country(tree0, d.country)
                  ELSE tree0
        named == IF Truthy(market_name)
                 THEN replace_textbox_text(
                        replace_text(scoped, MarketNameKey, market_name),
                        MarketNameKey, market_name)
                 ELSE scoped
        segmentations == materialize(d)
        d1 == replace_segments(named, segmentations)
        d2 == clean_empty_segments(d1)
        d3 == replace_companies(d2, companies_of(d))
        d4 == remove_unused_sections(d3, segmentations)
        d5 == clean_all_segment_markers(d4)
    IN  update_document_references(d5)

NoPath == <<>>

NewCall(d) ==
    [data |-> d, doc |-> NoDoc, pc |-> "load", temp_path |-> NoPath,
     updated_path |-> NoPath, response |-> NoResponse]

CallStep(c, next) == calls' = [calls EXCEPT ![c].pc = next]

CallFail(c, e, message) ==
    /\ calls' = [calls EXCEPT ![c].pc = "done",
                              ![c].response = ErrorResponse(e, message)]
    /\ disk' = disk

Idle17 == UNCHANGED <<singleVars, bulkVars, treeVars, storeVars>>

\* get_template_path, Document(template_path) and the passes over the
\* request's own tree
CallLoad(c) ==
    /\ calls[c].pc = "load"
    /\ LET d == calls[c].data
           region == IF TemplateType(d) = "Regional" THEN d.region ELSE Absent
           path == get_template_path(TemplateType(d), region, AssetsOnDisk)
           tree0 == disk[template_path(path.v)]
       IN  IF ~path.ok
           THEN CallFail(c, path.err,
                         template_message(TemplateType(d), region,
                                          AssetsOnDisk))
           ELSE IF scope_error(d, tree0) # ""
           THEN CallFail(c, scope_error(d, tree0), scope_message(d, tree0))
           ELSE /\ calls' = [calls EXCEPT ![c].pc = "temp",
                                          ![c].doc = fill_tree(d, tree0)]
                /\ disk' = disk
    /\ Idle17

IssuedNames == {calls[o].temp_path : o \in Calls} \ {NoPath}

CallTempFile(c) ==
    /\ calls[c].pc = "temp"
    /\ \E path \in named_temporary_file(DOMAIN disk, IssuedNames) :
          /\ calls' = [calls EXCEPT ![c].pc = "save",
                                    ![c].temp_path = path]
          /\ disk' = WriteFile(path, NoDoc)
    /\ Idle17

\* doc.save(temp_path)
CallSave(c) ==
    /\ calls[c].pc = "save"
    /\ disk' = WriteFile(calls[c].temp_path, calls[c].doc)
    /\ CallStep(c, IF HeaderLocation(calls[c].data) = Absent THEN "reload"
                   ELSE "copy")
    /\ Idle17

\* replace_header_textbox: shutil.copy2(doc_path, output_path)
CallCopy(c) ==
    /\ calls[c].pc = "copy"
    /\ LET doc_path == calls[c].temp_path
       IN  IF doc_path \in DOMAIN disk
           THEN /\ disk' = WriteFile(output_path(doc_path), disk[doc_path])
                /\ calls' = [calls EXCEPT
                               ![c].pc = "patch",
                               ![c].updated_path = output_path(doc_path)]
           ELSE CallFail(c, "FileNotFoundError", "No such file or directory")
    /\ Idle17

\* replace_header_textbox: the headers of the copy are rewritten
CallPatch(c) ==
    /\ calls[c].pc = "patch"
    /\ LET path == calls[c].updated_path
           d == calls[c].data
       IN  IF path \in DOMAIN disk
           THEN /\ disk' = WriteFile(path,
                              replace_header_textbox(
                                  disk[path], Get(d.market_name, <<>>),
                                  HeaderLocation(d)))
                /\ CallStep(c, "reload")
           ELSE CallFail(c, "FileNotFoundError", "No such file or directory")
    /\ Idle17

\* the in-memory file, the record in the metadata store and send_file;
\* the tree is dropped with the request
Responded(c, d) ==
    IF "single_record" \in faults
    THEN [calls[c] EXCEPT !.pc = "done", !.doc = NoDoc,
                          !.response = ErrorResponse("PyMongoError",
                                                     <<"store">>)]
    ELSE [calls[c] EXCEPT !.pc = "done", !.doc = NoDoc,
                          !.response = [code |-> 200, kind |-> "document",
                                        doc |-> d,
                                        filename |-> Filename(calls[c].data),
                                        error |-> ""]]

\* Document(updated_path); or, when the header pass gave no file,
\* Document(temp_path) followed by the response
CallReload(c) ==
    /\ calls[c].pc = "reload"
    /\ LET updated == calls[c].updated_path
           temp == calls[c].temp_path
       IN  IF updated # NoPath /\ updated \in DOMAIN disk
           THEN /\ calls' = [calls EXCEPT ![c].pc = "remove_temp",
                                          ![c].doc = disk[updated]]
                /\ disk' = disk
           ELSE IF temp \in DOMAIN disk
           THEN /\ calls' = [calls EXCEPT ![c] = Responded(c, disk[temp])]
                /\ disk' = disk
           ELSE CallFail(c, "PackageNotFoundError", "Package not found")
    /\ Idle17

\* os.remove(temp_path)
CallRemoveTemp(c) ==
    /\ calls[c].pc = "remove_temp"
    /\ IF calls[c].temp_path \in DOMAIN disk
       THEN /\ disk' = RemoveFile(calls[c].temp_path)
            /\ CallStep(c, "remove_updated")
       ELSE CallFail(c, "FileNotFoundError", "No such file or directory")
    /\ Idle17

\* os.remove(updated_path), followed by the response
CallRemoveUpdated(c) ==
    /\ calls[c].pc = "remove_updated"
    /\ IF calls[c].updated_path \in DOMAIN disk
       THEN /\ disk' = RemoveFile(calls[c].updated_path)
            /\ calls' = [calls EXCEPT ![c] = Responded(c, calls[c].doc)]
       ELSE CallFail(c, "FileNotFoundError", "No such file or directory")
    /\ Idle17

\* requests on the same template and on different templates
CallRequests ==
    <<[BaseData EXCEPT !.Segment[1] = SegmentName(1)],
      [BaseData EXCEPT !.template_type = "Regional", !.region = Europe,
                       !.market_name = <<"Robots">>],
      [BaseData EXCEPT !.market_name = <<"Robots">>,
                       !.Segment[1] = SegmentName(1),
                       !.Segment[2] = SegmentName(2),
                       !.Company[1] = CompanyName(1)]>>

\* the template assets that are installed
InstalledAssets == {"global_template.docx", "europe_region_template.docx"}

TemplateAssets == [f \in InstalledAssets |-> Template(f)]

InitCalls ==
    /\ disk = [p \in {template_path(f) : f \in InstalledAssets} |->
                  TemplateAssets[p[2]]]
    /\ \E first \in {1, 2} :
          calls = [c \in Calls |->
                     NewCall(CallRequests[((first + c) % Len(CallRequests))
                                          + 1])]

InitConcurrent ==
    InitCalls /\ IdleSingle /\ IdleBulk /\ IdleTree /\ StoreUp

NextConcurrent ==
    \/ \E c \in Calls : CallLoad(c)
    \/ \E c \in Calls : CallTempFile(c)
    \/ \E c \in Calls : CallSave(c)
    \/ \E c \in Calls : CallCopy(c)
    \/ \E c \in Calls : CallPatch(c)
    \/ \E c \in Calls : CallReload(c)
    \/ \E c \in Calls : CallRemoveTemp(c)
    \/ \E c \in Calls : CallRemoveUpdated(c)

SpecConcurrent == InitConcurrent /\ [][NextConcurrent]_vars

\* ---------------------------------------------------------------------
\* C17: under any interleaving of concurrent single-document requests, on
\* the same template or on different ones, no template asset is ever
\* modified, and the response of each request is the response the same
\* request gets when it runs alone.
AloneResponse(d) ==
    LET region == IF TemplateType(d) = "Regional" THEN d.region ELSE Absent
        path == get_template_path(TemplateType(d), region, InstalledAssets)
        filled == fill_tree(d, Template(path.v))
    IN  [code |-> 200, kind |-> "document",
         doc |-> replace_header_textbox(filled, Get(d.market_name, <<>>),
                                        HeaderLocation(d)),
         filename |-> Filename(d), error |-> ""]

AloneResponses ==
    [i \in 1..Len(CallRequests) |-> AloneResponse(CallRequests[i])]

StatedOrder ==
    <<"resolve", "load", "scope", "market", "segments", "prune", "zones",
      "markers", "refs", "save", "header", "respond">>

StatedSteps == SelectSeq(trace, LAMBDA s : s \in Range(StatedOrder))

C18_StepsInStatedOrder ==
    /\ Len(StatedSteps) <= Len(StatedOrder)
    /\ \A k \in 1..Len(StatedSteps) : StatedSteps[k] = StatedOrder[k]
    /\ (pc = "done" /\ response.code = 200) => StatedSteps = StatedOrder

\* a successful synthesis with a substituted segment and removed zones
C18_Witness ==
    /\ pc = "done" /\ response.code = 200
    /\ data.Segment[1] # Absent /\ data.Segment[2] = Absent
    /\ StatedSteps = StatedOrder

\* ---------------------------------------------------------------------
\* C19: in the single and in the bulk path the value supplied for segment
\* i replaces {{SegmentI}} and no other segment placeholder, and the value
\* of its sub-segment j replaces {{SegmentISub-segmentJ}}, also when a
\* lower-numbered segment or sub-segment is missing from the input. In the
\* templates zone n holds its content block, then the paragraph with
\* {{SegmentN}} and then the paragraphs with its sub-segment placeholders.
\* The output is read after the later passes, which drop paragraphs left
\* without text, so the property is stated for values that have text.
HasText(v) == v # Absent /\ v # <<>>
SegmentLine(v) == <<"By", " ">> \o v
SubLine(v) == <<"-", " ">> \o v

BoundToOwnPlaceholders(d, out) ==
    LET texts == ParaTexts(out)
        At(n) == {p \in 1..Len(texts) : texts[p] = ZoneContent(n)}
    IN  \A i \in 1..NumSegments :
            HasText(d.Segment[i]) =>
                /\ \E p \in At(i) :
                      /\ p + 1 <= Len(texts)
                      /\ texts[p + 1] = SegmentLine(d.Segment[i])
                      /\ \A j \in 1..TemplateSubs :
                            HasText(d.Sub[i][j]) =>
                                \E q \in (p + 2)..(p + 1 + TemplateSubs) :
                                    /\ q <= Len(texts)
                                    /\ texts[q] = SubLine(d.Sub[i][j])
                /\ \A k \in 1..NumSegments \ {i} :
                      \A p \in At(k) :
                          (p + 1 <= Len(texts) /\ d.Segment[k] # d.Segment[i])
                              => texts[p + 1] # SegmentLine(d.Segment[i])

C19_SegmentsBoundByIndex ==
    /\ Succeeded => BoundToOwnPlaceholders(data, response.doc)
    /\ pc = "done" =>
          \E made \in {generate_single_document(data, assets)} :
              made.ok => BoundToOwnPlaceholders(data, made.v)

\* ---------------------------------------------------------------------
\* C20: for every input, in the single and in the bulk path, the
\* materialized model handed to substitution has at most 6 segments, at
\* most 10 sub-segments per segment and at most 10 companies.
WithinVocabulary(segments, companies) ==
    /\ Len(segments) <= NumSegments
    /\ \A k \in 1..Len(segments) :
          Len(segments[k].subSegments) <= NumSubSegments
    /\ Len(companies) <= NumCompanies

C20_MaterializedModelBounded ==
    /\ "segments" \in Range(trace)
          => WithinVocabulary(materialize(data), companies_of(data))
    /\ pc = "done"
          => WithinVocabulary(materialize_row(data), companies_of(data))

-----------------------------------------------------------------------------
(* clean_empty_segments applied directly to trees whose paragraphs and     *)
(* table rows hold segment placeholders                                     *)

TwoCells(a, b) == <<a, b>>

PruneBlocks ==
    {Para(<<"Intro">>),
     Para(<<" ">>),
     Para(<<"By", " ">> \o SegmentKey(2)),
     Para(<<" ">> \o SubKey(1, 2) \o <<" ">>),
     Para(<<"-", " ">> \o SubKeyCapital(1, 1)),
     Tbl(<< TwoCells(<< <<"Name">> >>, << <<"Share">> >>),
            TwoCells(<< <<"Acme">> >>, << <<"top">>, SegmentKey(3) >>),
            TwoCells(<< <<" ">> >>, << <<>> >>) >>),
     Tbl(<< TwoCells(<< SubKeyCapital(2, 1) >>, << <<"n/a">> >>),
            TwoCells(<< <<"Rest">> >>, << <<"of">>, <<"world">> >>) >>)}

RECURSIVE PruneBodies(_)
PruneBodies(n) ==
    IF n = 0 THEN {<<>>}
    ELSE LET shorter == PruneBodies(n - 1)
         IN  shorter \cup {Append(b, c) : b \in {s \in shorter : Len(s) = n - 1},
                                         c \in PruneBlocks}

InitPrune ==
    /\ tree \in {TreeOf(b) : b \in PruneBodies(MaxBlocks) \ {<<>>}}
    /\ arg = [placeholder |-> <<>>, replacement |-> <<>>, segmentations |-> <<>>]
    /\ once = NoDoc
    /\ twice = NoDoc
    /\ stage = "start"
    /\ IdleSingle /\ IdleBulk /\ StoreUp /\ IdleCalls

TreePrune ==
    /\ stage = "start"
    /\ once' = clean_empty_segments(tree)
    /\ stage' = "pruned"
    /\ UNCHANGED <<tree, arg, twice, singleVars, bulkVars, storeVars, callVars>>

NextPrune == TreePrune

SpecPrune == InitPrune /\ [][NextPrune]_vars

\* ---------------------------------------------------------------------
\* C21: clean_empty_segments removes exactly the body paragraphs and the
\* table rows that contain a {{SegmentI}} or {{SegmentISub-segmentJ}}
\* placeholder (I in 1..6, J in 1..10): none is left afterwards, each is
\* removed whole, and every paragraph and row without one is unchanged.
StatedPlaceholders ==
    {SegmentKey(i) : i \in 1..NumSegments}
    \cup {SubKey(i, j) : i \in 1..NumSegments, j \in 1..NumSubSegments}

HoldsStated(t) == \E ph \in StatedPlaceholders : Contains(t, ph)

RowHoldsStated(row) ==
    \E c \in DOMAIN row : \E p \in DOMAIN row[c] : HoldsStated(row[c][p])

WithoutStated(body) ==
    LET kept == SelectSeq(body, LAMBDA b : ~(b.k = "p" /\ HoldsStated(b.t)))
    IN  [i \in DOMAIN kept |->
            IF kept[i].k = "tbl"
            THEN Tbl(SelectSeq(kept[i].rows, LAMBDA r : ~RowHoldsStated(r)))
            ELSE kept[i]]

C21_PruneExact ==
    stage = "pruned" =>
        /\ \A t \in BodyTexts(once) : ~HoldsStated(t)
        /\ once.body = WithoutStated(tree.body)
        /\ once.hdr = tree.hdr

-----------------------------------------------------------------------------
(* remove_unused_sections and clean_all_segment_markers applied to trees   *)
(* with zones of two segments and to segment lists with empty names        *)

ZoneBlocks ==
    {Para(<<"Intro">>),
     Para(StartMarker(1)),
     Para(<<"Top", " ">> \o EndMarker(1)),
     Para(StartMarker(1) \o <<"Both">> \o EndMarker(1)),
     Para(StartMarker(2) \o <<" ", "Share">>),
     Para(EndMarker(2)),
     OneCell(StartMarker(1) \o <<"Cell">> \o EndMarker(2))}

RECURSIVE ZoneBodies(_)
ZoneBodies(n) ==
    IF n = 0 THEN {<<>>}
    ELSE LET shorter == ZoneBodies(n - 1)
         IN  shorter \cup {Append(b, c) : b \in {s \in shorter : Len(s) = n - 1},
                                         c \in ZoneBlocks}

Named(i) == [name |-> SegmentName(i), subSegments |-> <<>>]
Unnamed == [name |-> <<>>, subSegments |-> <<>>]

SegmentLists ==
    {<<>>, <<Named(1)>>, <<Unnamed>>, <<Named(1), Named(2)>>,
     <<Unnamed, Named(2)>>}

InitZones ==
    /\ tree \in {TreeOf(b) : b \in ZoneBodies(MaxBlocks) \ {<<>>}}
    /\ arg \in {[placeholder |-> <<>>, replacement |-> <<>>,
                 segmentations |-> s] : s \in SegmentLists}
    /\ once = NoDoc
    /\ twice = NoDoc
    /\ stage = "start"
    /\ IdleSingle /\ IdleBulk /\ StoreUp /\ IdleCalls

NextZones == TreeRemoveZones \/ TreeCleanMarkers

SpecZones == InitZones /\ [][NextZones]_vars

\* the ranges as the scan is stated: from a position with no zone open the
\* zone opens at the first paragraph with the Start marker and closes at
\* the first paragraph with the End marker at or after it
FirstWith(body, marker, from) ==
    LET at == {i \in from..Len(body) :
                  body[i].k = "p" /\ Contains(body[i].t, marker)}
    IN  IF at = {} THEN 0 ELSE CHOOSE i \in at : \A k \in at : i <= k

RECURSIVE StatedZones(_, _, _)
StatedZones(body, n, from) ==
    LET s == FirstWith(body, StartMarker(n), from)
        e == IF s = 0 THEN 0 ELSE FirstWith(body, EndMarker(n), s)
    IN  IF e = 0 THEN {}
        ELSE {<<s, e>>} \cup StatedZones(body, n, e + 1)

InStatedZone(body, n, i) ==
    \E z \in StatedZones(body, n, 1) : z[1] <= i /\ i <= z[2]

OutsideStatedZones(body, n) ==
    LET keep == {i \in DOMAIN body : ~InStatedZone(body, n, i)}
        Nth(k) == CHOOSE i \in keep : Cardinality({m \in keep : m <= i}) = k
    IN  [k \in 1..Cardinality(keep) |-> body[Nth(k)]]

RECURSIVE WithoutZonesOf(_, _, _)
WithoutZonesOf(body, unused, n) ==
    IF n > NumSegments THEN body
    ELSE WithoutZonesOf(IF n \in unused THEN OutsideStatedZones(body, n)
                        ELSE body,
                        unused, n + 1)

\* ---------------------------------------------------------------------
\* C22: for every segment number the function takes as absent, exactly
\* the top-level blocks in the inclusive [Start, End] ranges of the
\* in-order scan are removed, for every instance of the zone, and all
\* other top-level blocks stay in their original order.
C22_ZonesRemovedExactly ==
    stage \in {"zoned", "cleaned"} =>
        once.body = WithoutZonesOf(
                        tree.body,
                        (1..NumSegments) \ present_segments(arg.segmentations),
                        1)

C22_Witness ==
    /\ stage = "zoned"
    /\ arg.segmentations = <<>>
    /\ Cardinality(StatedZones(tree.body, 1, 1)) = 2
    /\ \E i \in DOMAIN tree.body : ~InStatedZone(tree.body, 1, i)
    /\ Len(once.body) = 1

\* zones of different segments share no block
ZonesApart(body) ==
    \A n, m \in 1..NumSegments :
        n # m => \A i \in DOMAIN body :
                    ~(InStatedZone(body, n, i) /\ InStatedZone(body, m, i))

\* ---------------------------------------------------------------------
\* C23: the zone of segment N is removed if and only if segment N is
\* absent from the materialized segment list; a zone whose segment is in
\* the list is never removed, whatever the name of the segment, the empty
\* string included.
C23_ZoneRemovedIffAbsent ==
    (stage = "zoned" /\ ZonesApart(tree.body)) =>
        \A n \in 1..NumSegments :
            LET before == StatedZones(tree.body, n, 1)
                after == StatedZones(once.body, n, 1)
            IN  before # {} =>
                    IF n \in DOMAIN arg.segmentations
                    THEN Cardinality(after) = Cardinality(before)
                    ELSE after = {}

-----------------------------------------------------------------------------
(* replace_header_textbox applied directly to header parts with one        *)
(* textbox paragraph, over the texts, the splits of a text into runs and   *)
(* text fragments, the market names and the locations                      *)

TextboxTexts ==
    {MarketNameKey,
     <<"Market", " ", "by", " ">> \o RegionCore,
     Opener \o <<"mar", "ket">> \o Closer,
     <<"Annual", " ", "Report">>,
     RegionKey \o <<" ">> \o MarketNameKey,
     Spaced(MarketNameCore)}

\* the ways the text of a paragraph lies in its runs (w:r) and their text
\* fragments (w:t): one fragment; two runs; two fragments of one run; a
\* first run without a text fragment
SplitAt(t) == IF Len(t) > 3 THEN 3 ELSE 1
FirstPart(t) == SubSeq(t, 1, SplitAt(t))
SecondPart(t) == SubSeq(t, SplitAt(t) + 1, Len(t))

Layouts(t) ==
    {<< <<t>> >>,
     << <<FirstPart(t)>>, <<SecondPart(t)>> >>,
     << <<FirstPart(t), SecondPart(t)>> >>,
     << <<>>, <<t>> >>}

MarketNames ==
    {<<"Drones">>,
     <<"Asia", " ">> \o RegionCore,
     <<"Smart", " ">> \o MarketNameCore,
     <<>>}

Locations == {<<>>, Europe}

HeaderOf(p) ==
    [NoDoc EXCEPT !.txbx = <<p>>, !.atext = <<MarketNameKey>>,
                  !.loaded = TRUE]

InitHeader ==
    /\ tree \in {HeaderOf([kind |-> kind, runs |-> runs])
                    : kind \in {"wps", "vml"},
                      runs \in UNION {Layouts(t) : t \in TextboxTexts}}
    /\ arg \in [market_name : MarketNames, location : Locations]
    /\ once = NoDoc
    /\ twice = NoDoc
    /\ stage = "start"
    /\ IdleSingle /\ IdleBulk /\ StoreUp /\ IdleCalls

TreeHeader ==
    /\ stage = "start"
    /\ once' = replace_header_textbox(tree, arg.market_name, arg.location)
    /\ stage' = "headered"
    /\ UNCHANGED <<tree, arg, twice, singleVars, bulkVars, storeVars, callVars>>

NextHeader == TreeHeader

SpecHeader == InitHeader /\ [][NextHeader]_vars

\* ---------------------------------------------------------------------
\* C24: raw header substitution leaves unchanged every textbox paragraph
\* whose concatenated text contains none of the alias tokens of
\* market_name, region and country: the literal {{name}}, the spaced
\* { {name} }, the underscore-stripped and the lower-cased braced forms.
StatedAliases ==
    UNION {{Ph(core), Spaced(core), Ph(NoUnderscore(core)),
            Ph(Lower(NoUnderscore(core)))}
           : core \in {MarketNameCore, RegionCore, CountryCore}}

HoldsAlias(text) == \E alias \in StatedAliases : Contains(text, alias)

C24_ParagraphsWithoutAliasUnchanged ==
    stage = "headered" =>
        \A i \in DOMAIN tree.txbx :
            ~HoldsAlias(TxbxText(tree.txbx[i])) => once.txbx[i] = tree.txbx[i]

\* the text fragments of a textbox paragraph in document order
Fragments(p) == Join(<<>>, p.runs)

\* ---------------------------------------------------------------------
\* C25: when raw substitution changes a textbox paragraph, its first text
\* fragment then holds the whole replaced text and every other text
\* fragment of the paragraph is empty, for any split of the original text
\* into runs and text fragments.
C25_TextCollapsedIntoFirstFragment ==
    stage = "headered" =>
        \A i \in DOMAIN tree.txbx :
            once.txbx[i] # tree.txbx[i] =>
                LET fragments == Fragments(once.txbx[i])
                IN  /\ fragments # <<>>
                    /\ fragments[1] = TxbxText(once.txbx[i])
                    /\ \A k \in 2..Len(fragments) : fragments[k] = <<>>

-----------------------------------------------------------------------------
(* update_document_references applied directly to bodies with up to        *)
(* MaxBlocks field-code regions                                            *)

FieldRun(fld, instr) == [fld |-> fld, instr |-> instr, dirty |-> FALSE]

\* begin marker and instruction text in one run
OneRunField(instr) == <<FieldRun("begin", instr), FieldRun("end", <<>>)>>

\* begin marker, instruction text, separator and end marker each in a run
\* of its own
FourRunField(instr) ==
    <<FieldRun("begin", <<>>), FieldRun("none", instr),
      FieldRun("separate", <<>>), FieldRun("end", <<>>)>>

\* the instruction text in the run of the separator
SeparatorRunField(instr) ==
    <<FieldRun("begin", <<>>), FieldRun("separate", instr),
      FieldRun("end", <<>>)>>

FieldRegions ==
    {OneRunField(<<" ", "TOC", " ", "\\o">>),
     OneRunField(<<" ", "PAGE", "REF", " ", "_Toc1">>),
     OneRunField(<<" ", "DATE", " ">>),
     FourRunField(<<" ", "TOC", " ", "\\o">>),
     FourRunField(<<" ", "DATE", " ">>),
     SeparatorRunField(<<" ", "SEQ", " ", "Figure">>)}

RECURSIVE FieldLists(_)
FieldLists(n) ==
    IF n = 0 THEN {<<>>}
    ELSE LET shorter == FieldLists(n - 1)
         IN  shorter \cup {f \o r : f \in shorter, r \in FieldRegions}

InitFields ==
    /\ tree \in {[NoDoc EXCEPT !.body = <<Para(<<"Contents">>)>>,
                               !.fields = f, !.loaded = TRUE]
                    : f \in FieldLists(MaxBlocks)}
    /\ arg = [placeholder |-> <<>>, replacement |-> <<>>, segmentations |-> <<>>]
    /\ once = NoDoc
    /\ twice = NoDoc
    /\ stage = "start"
    /\ IdleSingle /\ IdleBulk /\ StoreUp /\ IdleCalls

TreeRefresh ==
    /\ stage = "start"
    /\ once' = update_document_references(tree)
    /\ stage' = "refreshed"
    /\ UNCHANGED <<tree, arg, twice, singleVars, bulkVars, storeVars, callVars>>

NextFields == TreeRefresh

SpecFields == InitFields /\ [][NextFields]_vars

\* the field-code region that begins at run b: the runs up to the next
\* end marker, and its instruction text
RegionEnd(fields, b) ==
    LET ends == {e \in b..Len(fields) : fields[e].fld = "end"}
    IN  IF ends = {} THEN Len(fields)
        ELSE CHOOSE e \in ends : \A k \in ends : e <= k

InstructionText(fields, b) ==
    Join(<<>>, [k \in 1..(RegionEnd(fields, b) - b + 1) |->
                    fields[b + k - 1].instr])

HasKeyword(text) == \E k \in DOMAIN FieldKeywords : Contains(text, FieldKeywords[k])

\* ---------------------------------------------------------------------
\* C26: after the reference refresh every field-code region whose
\* instruction text contains TOC, TOF, TOT, REF, PAGEREF or SEQ has the
\* dirty flag set on its begin marker, no begin marker of a field without
\* such a keyword is flagged, no text is changed, and a document without
\* such a field is processed without error.
C26_KeywordFieldsFlagged ==
    stage = "refreshed" =>
        /\ Len(once.fields) = Len(tree.fields)
        /\ \A b \in DOMAIN tree.fields :
              /\ once.fields[b].instr = tree.fields[b].instr
              /\ once.fields[b].fld = tree.fields[b].fld
              /\ tree.fields[b].fld = "begin" =>
                    (once.fields[b].dirty
                        <=> HasKeyword(InstructionText(tree.fields, b)))
              /\ tree.fields[b].fld # "begin" => ~once.fields[b].dirty
        /\ once.body = tree.body /\ once.hdr = tree.hdr
        /\ once.txbx = tree.txbx /\ once.atext = tree.atext

\* every run of the paragraph holds exactly one text fragment
OneFragmentPerRun(p) == \A r \in DOMAIN p.runs : Len(p.runs[r]) = 1

\* ---------------------------------------------------------------------
\* C27: after raw header substitution a header textbox paragraph whose
\* text was exactly {{market_name}} has text exactly equal to the supplied
\* market name, for every market name, including names that contain the
\* words region, country or market_name.
C27_HeaderShowsMarketName ==
    (stage = "headered" /\ Truthy(arg.market_name)) =>
        \A i \in DOMAIN tree.txbx :
            (/\ TxbxText(tree.txbx[i]) = MarketNameKey
             /\ OneFragmentPerRun(tree.txbx[i]))
                => TxbxText(once.txbx[i]) = arg.market_name

\* the text of a paragraph without its marker tokens
RECURSIVE WithoutMarkers(_, _)
WithoutMarkers(t, n) ==
    IF n > NumSegments THEN t
    ELSE WithoutMarkers(
            Replace(Replace(t, StartMarker(n), <<>>), EndMarker(n), <<>>),
            n + 1)

HoldsRetainedMarker(t, segmentations) ==
    \E n \in present_segments(segmentations) :
        Contains(t, StartMarker(n)) \/ Contains(t, EndMarker(n))

TextKept(t, texts) ==
    WithoutMarkers(t, 1) # <<>>
        => \E u \in texts : Contains(u, WithoutMarkers(t, 1))

\* ---------------------------------------------------------------------
\* C28: marker stripping removes only marker tokens: non-marker text that
\* shares a paragraph with a Start or End marker of a retained segment is
\* still present after clean_all_segment_markers, in body paragraphs as in
\* table cells.
C28_OnlyMarkersStripped ==
    stage = "cleaned" =>
        /\ \A t \in Range(ParaTexts(once)) :
              HoldsRetainedMarker(t, arg.segmentations)
                  => TextKept(t, Range(ParaTexts(twice)))
        /\ \A t \in CellTexts(once) :
              HoldsRetainedMarker(t, arg.segmentations)
                  => TextKept(t, CellTexts(twice))

\* ---------------------------------------------------------------------
\* C29: at the end of a bulk job a per-row document record with status
\* completed exists in the metadata store only for rows whose outcome is
\* Success: a row whose synthesis failed leaves no record marked
\* completed.
C29_CompletedRecordsOnlyForSuccess ==
    bpc = "done" =>
        \A k \in DOMAIN docRecords :
            docRecords[k].status = "completed" =>
                \E i \in DOMAIN bulkRecord.files :
                    /\ bulkRecord.files[i].row = docRecords[k].row
                    /\ bulkRecord.files[i].status = "completed"

\* ---------------------------------------------------------------------
\* C30: every bulk-job record created with status processing eventually
\* leaves that status: it becomes completed once every row has been
\* processed and never before, or failed if the batch is aborted by an
\* error outside the per-row handling; no finished request leaves a job
\* in processing.
C30_JobLeavesProcessing ==
    /\ [](bulkRecord.status = "completed" => rowIdx = Len(table.rows))
    /\ (bulkRecord.status = "processing")
          ~> (bulkRecord.status \in {"completed", "failed"})

====
